---- MODULE Spec2Model ----
(***************************************************************************)
(* Pipe calculator: telescoping resolver (createNestedGroups,              *)
(* findTelescopingPossibilities), circle-packing engine                    *)
(* (arrangePipesInCrossSection, findBestPosition and its helpers) and      *)
(* container aggregator (calculateVolumesNeededByPacking).                 *)
(*                                                                         *)
(* Numbers.  The code computes in IEEE doubles; the model computes in      *)
(* integers.  Every length of the cross-section plane (diameters, width,   *)
(* height, spacing, allowance, coordinates) is an integer number of        *)
(* thousandths of the code's length unit, so the code's 0.001 tolerance is *)
(* 1 and its 0.01 tie tolerance is 10.  Lengths along the pipe axis are    *)
(* whole units (cm), weightPerMeter is whole kg/m, and a weight is kept in *)
(* hundredths of a kg (length * weightPerMeter, the code's                 *)
(* (length / 100) * weightPerMeter times 100).                             *)
(***************************************************************************)
EXTENDS Integers, Sequences, FiniteSets, TLC

\* ------------------------------------------------------------ arithmetic

\* 0.001, the overlap tolerance of canPlaceCircle, in thousandths.
Tolerance == 1

\* 0.01, the tie tolerance of findBestPosition's comparator, in thousandths.
TieTolerance == 10

\* The round cap of arrangePipesInCrossSection.
maxIterations == 10000

\* Math.cos / Math.sin are tabulated at the nine angles k * PI / 8 the code
\* visits, scaled by TrigScale.
TrigScale == 100000

\* Math.sqrt in findNestingPositions is taken in quarters of a thousandth.
SubUnit == 4

CosTable == <<100000, 92388, 70711, 38268, 0, -38268, -70711, -92388, -100000>>

SinTable == <<0, 38268, 70711, 92388, 100000, 92388, 70711, 38268, 0>>

\* a / b rounded to the nearest integer (b > 0).
RoundDiv(a, b) == (2 * a + b) \div (2 * b)

Abs(a) == IF a < 0 THEN -a ELSE a

Max(a, b) == IF a >= b THEN a ELSE b

Min(a, b) == IF a <= b THEN a ELSE b

Sign(a) == IF a > 0 THEN 1 ELSE IF a < 0 THEN -1 ELSE 0

\* !v.f for a numeric field: the field is absent (undefined) or 0.
Falsy(v, f) == IF f \in DOMAIN v THEN v[f] = 0 ELSE TRUE

\* ceil(a / b) for a >= 0, b > 0.
CeilDiv(a, b) == (a + b - 1) \div b

RECURSIVE SqrtSearch(_, _, _)
SqrtSearch(n, lo, hi) ==
    IF lo >= hi THEN lo
    ELSE LET mid == (lo + hi + 1) \div 2
         IN  IF mid * mid <= n THEN SqrtSearch(n, mid, hi)
             ELSE SqrtSearch(n, lo, mid - 1)

\* floor(Math.sqrt(n)), n >= 0.
Sqrt(n) == SqrtSearch(n, 0, 46340)

\* Math.sqrt(dx*dx + dy*dy) < m, decided exactly: the square root of a
\* non-negative number is below m iff m is positive and the number is below
\* m squared.
DistanceBelow(dx, dy, m) == m > 0 /\ dx * dx + dy * dy < m * m

\* Math.sqrt(dx*dx + dy*dy) > m, decided exactly.
DistanceAbove(dx, dy, m) == m < 0 \/ dx * dx + dy * dy > m * m

\* --------------------------------------------------------------- resolver

\* [...pipeTypes].sort((a, b) => b.externalDiameter - a.externalDiameter):
\* a copy, sorted by external diameter, largest first; Array.prototype.sort
\* is stable, so equal diameters keep their order.
RECURSIVE InsertByDiameter(_, _)
InsertByDiameter(sorted, p) ==
    IF sorted = <<>> THEN <<p>>
    ELSE IF Head(sorted).externalDiameter >= p.externalDiameter
         THEN <<Head(sorted)>> \o InsertByDiameter(Tail(sorted), p)
         ELSE <<p>> \o sorted

RECURSIVE SortByExternalDiameter(_)
SortByExternalDiameter(pipes) ==
    IF pipes = <<>> THEN <<>>
    ELSE InsertByDiameter(SortByExternalDiameter(SubSeq(pipes, 1, Len(pipes) - 1)),
                          pipes[Len(pipes)])

\* The weight of one pipe, (length / 100) * weightPerMeter, in hundredths
\* of a kg.
PipeWeight(p) == p.length * p.weightPerMeter

\* The group createNestedGroups opens for an outer pipe.
NewGroup(outerPipe) ==
    [outerPipe         |-> outerPipe,
     nestedPipes       |-> <<>>,
     effectiveDiameter |-> outerPipe.externalDiameter,
     effectiveLength   |-> outerPipe.length,
     totalWeight       |-> PipeWeight(outerPipe)]

\* What the inner loop does with an inner pipe that fits: the pipe joins
\* the group, and the group's weight and effective length are updated.
AcceptNested(group, innerPipe) ==
    [group EXCEPT !.nestedPipes = Append(@, innerPipe),
                  !.totalWeight = @ + PipeWeight(innerPipe),
                  !.effectiveLength =
                      IF innerPipe.length > @ THEN innerPipe.length ELSE @]

\* The space inside a pipe with the allowance left out.
AvailableInsideNoAllowance(pipe, allowance) == pipe.internalDiameter

\* The space an accepted or outer pipe offers to what nests inside it.
AvailableInside(pipe, allowance) == pipe.internalDiameter - (2 * allowance)

\* The inner loop of createNestedGroups from index j on: st holds the group,
\* the used ids and availableInternalDiameter.
RECURSIVE NestInto(_, _, _, _, _)
NestInto(sortedPipes, outerPipe, j, allowance, st) ==
    IF j > Len(sortedPipes) THEN st
    ELSE LET innerPipe == sortedPipes[j] IN
         IF innerPipe.id \in st.usedPipes \/ innerPipe.id = outerPipe.id
         THEN NestInto(sortedPipes, outerPipe, j + 1, allowance, st)
         ELSE IF innerPipe.externalDiameter <= st.available
              THEN NestInto(sortedPipes, outerPipe, j + 1, allowance,
                       [group     |-> AcceptNested(st.group, innerPipe),
                        usedPipes |-> st.usedPipes \cup {innerPipe.id},
                        available |-> AvailableInside(innerPipe, allowance)])
              ELSE NestInto(sortedPipes, outerPipe, j + 1, allowance, st)

\* The outer loop of createNestedGroups from index i on.
RECURSIVE GroupFrom(_, _, _, _)
GroupFrom(sortedPipes, i, allowance, acc) ==
    IF i > Len(sortedPipes) THEN acc
    ELSE LET outerPipe == sortedPipes[i] IN
         IF outerPipe.id \in acc.usedPipes
         THEN GroupFrom(sortedPipes, i + 1, allowance, acc)
         ELSE LET st == NestInto(sortedPipes, outerPipe, 1, allowance,
                            [group     |-> NewGroup(outerPipe),
                             usedPipes |-> acc.usedPipes,
                             available |-> AvailableInside(outerPipe, allowance)])
              IN  IF Len(st.group.nestedPipes) > 0
                  THEN GroupFrom(sortedPipes, i + 1, allowance,
                           [nestedGroups |-> Append(acc.nestedGroups, st.group),
                            usedPipes    |-> st.usedPipes \cup {outerPipe.id}])
                  ELSE GroupFrom(sortedPipes, i + 1, allowance,
                           [nestedGroups |-> acc.nestedGroups,
                            usedPipes    |-> st.usedPipes])

\* The standalone pipes taken as every sorted pipe, used or not.
NotUsedUnfiltered(sortedPipes, usedPipes) == sortedPipes

\* sortedPipes.filter(p => !usedPipes.has(p.id))
NotUsed(sortedPipes, usedPipes) ==
    SelectSeq(sortedPipes, LAMBDA p : p.id \notin usedPipes)

createNestedGroups(pipeTypes, allowance) ==
    LET sortedPipes == SortByExternalDiameter(pipeTypes)
        acc == GroupFrom(sortedPipes, 1, allowance,
                         [nestedGroups |-> <<>>, usedPipes |-> {}])
    IN  [nestedGroups    |-> acc.nestedGroups,
         standalonePipes |-> NotUsed(sortedPipes, acc.usedPipes)]

\* { ...pipe, extra }: the object pipe with the fields of extra added or
\* replaced.
Spread(pipe, extra) ==
    [f \in DOMAIN pipe \cup DOMAIN extra |->
        IF f \in DOMAIN extra THEN extra[f] ELSE pipe[f]]

\* The pipeMap findTelescopingPossibilities starts from: a copy of every
\* pipe under its id, with no relationship yet (a later pipe replaces an
\* earlier one of the same id).
NewPipeMap(pipes) ==
    [id \in {pipes[i].id : i \in 1..Len(pipes)} |->
        LET last == CHOOSE i \in 1..Len(pipes) :
                        /\ pipes[i].id = id
                        /\ \A k \in 1..Len(pipes) : pipes[k].id = id => k <= i
        IN  Spread(pipes[last], [telescopedWith |-> <<>>, telescopingType |-> "none"])]

\* What the inner loop of findTelescopingPossibilities does with an inner
\* pipe that fits: the outer entry gets the inner id and the type of this
\* inner pipe, then the inner entry is marked nested.
Telescope(pipeMap, outerPipe, innerPipe) ==
    LET telescopingType ==
            IF innerPipe.length <= outerPipe.length THEN "full" ELSE "partial"
        withOuter ==
            [pipeMap EXCEPT ![outerPipe.id] =
                Spread(@, [telescopedWith  |-> Append(@.telescopedWith, innerPipe.id),
                           telescopingType |-> telescopingType])]
    IN  [withOuter EXCEPT ![innerPipe.id] =
            Spread(@, [telescopingType |-> "nested",
                       telescopedIn    |-> outerPipe.id])]

\* The inner loop of findTelescopingPossibilities from index j on;
\* availableInternalDiameter is that of the outer pipe throughout.
RECURSIVE TelescopeInto(_, _, _, _, _)
TelescopeInto(sortedPipes, i, j, allowance, pipeMap) ==
    IF j > Len(sortedPipes) THEN pipeMap
    ELSE IF sortedPipes[j].externalDiameter
               <= AvailableInside(sortedPipes[i], allowance)
         THEN TelescopeInto(sortedPipes, i, j + 1, allowance,
                            Telescope(pipeMap, sortedPipes[i], sortedPipes[j]))
         ELSE TelescopeInto(sortedPipes, i, j + 1, allowance, pipeMap)

\* The outer loop of findTelescopingPossibilities from index i on.
RECURSIVE TelescopeFrom(_, _, _, _)
TelescopeFrom(sortedPipes, i, allowance, pipeMap) ==
    IF i > Len(sortedPipes) THEN pipeMap
    ELSE IF AvailableInside(sortedPipes[i], allowance) <= 0
         THEN TelescopeFrom(sortedPipes, i + 1, allowance, pipeMap)
         ELSE TelescopeFrom(sortedPipes, i + 1, allowance,
                            TelescopeInto(sortedPipes, i, i + 1, allowance, pipeMap))

\* Math.max(...ids.map(id => pipeMap.get(id)[f])) for a non-empty id list.
RECURSIVE MaxInner(_, _, _)
MaxInner(pipeMap, ids, f) ==
    IF Len(ids) = 1 THEN pipeMap[ids[1]][f]
    ELSE LET rest == MaxInner(pipeMap, Tail(ids), f)
         IN  IF pipeMap[ids[1]][f] >= rest THEN pipeMap[ids[1]][f] ELSE rest

\* The effective dimensions findTelescopingPossibilities gives one entry.
WithEffectiveDimensions(pipeMap, pipe) ==
    IF pipe.telescopingType \in {"none", "nested"}
    THEN Spread(pipe, [effectiveDiameter |-> pipe.externalDiameter,
                       effectiveLength   |-> pipe.length])
    ELSE IF pipe.telescopingType = "full"
    THEN Spread(pipe, [effectiveDiameter |-> pipe.externalDiameter,
                       effectiveLength   |-> pipe.length])
    ELSE LET maxInnerLength   == MaxInner(pipeMap, pipe.telescopedWith, "length")
             maxInnerDiameter == MaxInner(pipeMap, pipe.telescopedWith,
                                          "externalDiameter")
         IN  Spread(pipe,
                    [effectiveDiameter |->
                         IF pipe.externalDiameter >= maxInnerDiameter
                         THEN pipe.externalDiameter ELSE maxInnerDiameter,
                     effectiveLength |->
                         IF pipe.length >= maxInnerLength
                         THEN pipe.length ELSE maxInnerLength])

\* Array.from(pipeMap.values()): the entries in insertion order, which is the
\* order in which the ids first occur in pipes.
RECURSIVE MapValues(_, _, _)
MapValues(pipeMap, pipes, seen) ==
    IF pipes = <<>> THEN <<>>
    ELSE IF Head(pipes).id \in seen THEN MapValues(pipeMap, Tail(pipes), seen)
         ELSE <<pipeMap[Head(pipes).id]>>
              \o MapValues(pipeMap, Tail(pipes), seen \cup {Head(pipes).id})

\* buildSubtree: the node of a pipe, with the subtrees of the pipes
\* telescoped in it as children.
RECURSIVE buildSubtree(_, _)
buildSubtree(pipe, pipeMap) ==
    Spread(pipe,
           [children |->
               [n \in 1..Len(pipe.telescopedWith) |->
                   buildSubtree(pipeMap[pipe.telescopedWith[n]], pipeMap)]])

\* buildTelescopingTree: one tree per pipe that is telescoped in no other.
buildTelescopingTree(pipes) ==
    LET pipeMap   == [id \in {pipes[i].id : i \in 1..Len(pipes)} |->
                         pipes[CHOOSE i \in 1..Len(pipes) : pipes[i].id = id]]
        rootPipes == SelectSeq(pipes, LAMBDA p : "telescopedIn" \notin DOMAIN p)
    IN  [n \in 1..Len(rootPipes) |-> buildSubtree(rootPipes[n], pipeMap)]

findTelescopingPossibilities(pipes, allowance) ==
    LET sortedPipes  == SortByExternalDiameter(pipes)
        pipeMap      == TelescopeFrom(sortedPipes, 1, allowance, NewPipeMap(pipes))
        values       == MapValues(pipeMap, pipes, {})
        updatedPipes == [n \in 1..Len(values) |->
                            WithEffectiveDimensions(pipeMap, values[n])]
    IN  [pipes         |-> updatedPipes,
         relationships |-> buildTelescopingTree(updatedPipes)]

\* ----------------------------------------------------------------- engine

\* The template arrangePipesInCrossSection builds for a nested group: its
\* weight is recomputed from the outer pipe and the nested pipes.
RECURSIVE SumWeights(_)
SumWeights(pipes) ==
    IF pipes = <<>> THEN 0 ELSE PipeWeight(Head(pipes)) + SumWeights(Tail(pipes))

GroupTemplate(group) ==
    [type     |-> "nestedGroup",
     diameter |-> group.effectiveDiameter,
     length   |-> group.effectiveLength,
     weight   |-> PipeWeight(group.outerPipe) + SumWeights(group.nestedPipes),
     pipes    |-> <<group.outerPipe>> \o group.nestedPipes]

StandaloneTemplate(pipe) ==
    [type     |-> "standalone",
     diameter |-> pipe.externalDiameter,
     length   |-> pipe.length,
     weight   |-> PipeWeight(pipe),
     pipes    |-> <<pipe>>]

\* pipeTemplates.sort((a, b) => b.diameter - a.diameter), stable.
RECURSIVE InsertTemplate(_, _)
InsertTemplate(sorted, t) ==
    IF sorted = <<>> THEN <<t>>
    ELSE IF Head(sorted).diameter >= t.diameter
         THEN <<Head(sorted)>> \o InsertTemplate(Tail(sorted), t)
         ELSE <<t>> \o sorted

RECURSIVE SortTemplates(_)
SortTemplates(ts) ==
    IF ts = <<>> THEN <<>>
    ELSE InsertTemplate(SortTemplates(SubSeq(ts, 1, Len(ts) - 1)), ts[Len(ts)])

\* The templates of a run: the groups, then the standalone pipes, sorted.
BuildTemplates(nestedGroups, standalonePipes) ==
    SortTemplates(
        [i \in 1..Len(nestedGroups) |-> GroupTemplate(nestedGroups[i])]
        \o [i \in 1..Len(standalonePipes) |-> StandaloneTemplate(standalonePipes[i])])

\* The overlap test of canPlaceCircle against one placed circle:
\* distance < radius + placed.effectiveRadius - 0.001.
TooClose(x, y, radius, placed) ==
    DistanceBelow(x - placed.x, y - placed.y,
                  radius + placed.effectiveRadius - Tolerance)

\* The bounds test of canPlaceCircle (and of the filters that repeat it).
InBounds(x, y, radius, maxWidth, maxHeight) ==
    /\ x - radius >= 0
    /\ x + radius <= maxWidth
    /\ y - radius >= 0
    /\ y + radius <= maxHeight

\* canPlaceCircle without its loop over the placed circles: bounds only.
canPlaceCircleBoundsOnly(x, y, radius, placed, maxWidth, maxHeight) ==
    InBounds(x, y, radius, maxWidth, maxHeight)

canPlaceCircle(x, y, radius, placed, maxWidth, maxHeight) ==
    /\ InBounds(x, y, radius, maxWidth, maxHeight)
    /\ \A i \in 1..Len(placed) : ~TooClose(x, y, radius, placed[i])

\* The floor loop of findBestPosition from x on: x advances by radius / 2
\* while x <= maxWidth - radius.
RECURSIVE FloorCandidates(_, _, _, _, _)
FloorCandidates(x, radius, placed, maxWidth, maxHeight) ==
    IF x <= maxWidth - radius
    THEN (IF canPlaceCircle(x, radius, radius, placed, maxWidth, maxHeight)
          THEN <<[x |-> x, y |-> radius]>> ELSE <<>>)
         \o FloorCandidates(x + radius \div 2, radius, placed, maxWidth, maxHeight)
    ELSE <<>>

\* The point of findTangentPositions at angle (k - 1) * PI / 8.
TangentPoint(circle, radius, k) ==
    LET combinedRadius == circle.effectiveRadius + radius
    IN  [x |-> circle.x + RoundDiv(combinedRadius * CosTable[k], TrigScale),
         y |-> circle.y + RoundDiv(combinedRadius * SinTable[k], TrigScale)]

RECURSIVE TangentFrom(_, _, _, _, _, _)
TangentFrom(k, circle, radius, placed, maxWidth, maxHeight) ==
    IF k > Len(CosTable) THEN <<>>
    ELSE LET pt == TangentPoint(circle, radius, k)
         IN  (IF canPlaceCircle(pt.x, pt.y, radius, placed, maxWidth, maxHeight)
              THEN <<pt>> ELSE <<>>)
             \o TangentFrom(k + 1, circle, radius, placed, maxWidth, maxHeight)

findTangentPositions(circle, radius, placed, maxWidth, maxHeight) ==
    TangentFrom(1, circle, radius, placed, maxWidth, maxHeight)

\* The two intersection points of findNestingPositions, pos1 then pos2.
\* distance, a and h are kept in 1/SubUnit of a thousandth.
NestingPoints(circle1, circle2, radius) ==
    LET dx  == circle2.x - circle1.x
        dy  == circle2.y - circle1.y
        r1  == circle1.effectiveRadius + radius
        r2  == circle2.effectiveRadius + radius
        sq  == dx * dx + dy * dy
        dst == Sqrt(sq * SubUnit * SubUnit)
        a   == RoundDiv((r1 * r1 - r2 * r2 + sq) * SubUnit * SubUnit, 2 * dst)
        h   == Sqrt(Max(0, SubUnit * SubUnit * r1 * r1 - a * a))
    IN  IF DistanceBelow(dx, dy, r1 + r2) /\ DistanceAbove(dx, dy, Abs(r1 - r2))
        THEN << [x |-> circle1.x + RoundDiv(a * dx + h * dy, dst),
                 y |-> circle1.y + RoundDiv(a * dy - h * dx, dst)],
                [x |-> circle1.x + RoundDiv(a * dx - h * dy, dst),
                 y |-> circle1.y + RoundDiv(a * dy + h * dx, dst)] >>
        ELSE <<>>

findNestingPositions(circle1, circle2, radius, placed, maxWidth, maxHeight) ==
    SelectSeq(NestingPoints(circle1, circle2, radius),
              LAMBDA pos : canPlaceCircle(pos.x, pos.y, radius, placed,
                                          maxWidth, maxHeight))

\* The second loop of findBestPosition, from placed circle i on: the tangent
\* positions above the circle, then the position to its right.
RECURSIVE AroundCandidates(_, _, _, _, _)
AroundCandidates(i, radius, placed, maxWidth, maxHeight) ==
    IF i > Len(placed) THEN <<>>
    ELSE LET c      == placed[i]
             topY   == c.y + c.effectiveRadius + radius
             rightX == c.x + c.effectiveRadius + radius
         IN  (IF topY + radius <= maxHeight
              THEN findTangentPositions(c, radius, placed, maxWidth, maxHeight)
              ELSE <<>>)
             \o (IF rightX + radius <= maxWidth
                    /\ canPlaceCircle(rightX, c.y, radius, placed, maxWidth, maxHeight)
                 THEN <<[x |-> rightX, y |-> c.y]>> ELSE <<>>)
             \o AroundCandidates(i + 1, radius, placed, maxWidth, maxHeight)

\* The third loop of findBestPosition, from the pair (i, j) on.
RECURSIVE PairCandidates(_, _, _, _, _, _)
PairCandidates(i, j, radius, placed, maxWidth, maxHeight) ==
    IF i > Len(placed) THEN <<>>
    ELSE IF j > Len(placed)
         THEN PairCandidates(i + 1, i + 2, radius, placed, maxWidth, maxHeight)
         ELSE findNestingPositions(placed[i], placed[j], radius, placed,
                                   maxWidth, maxHeight)
              \o PairCandidates(i, j + 1, radius, placed, maxWidth, maxHeight)

\* The filter before the sort: bounds and canPlaceCircle once more.
validCandidates(candidates, radius, placed, maxWidth, maxHeight) ==
    SelectSeq(candidates,
              LAMBDA c : /\ InBounds(c.x, c.y, radius, maxWidth, maxHeight)
                         /\ canPlaceCircle(c.x, c.y, radius, placed,
                                           maxWidth, maxHeight))

\* The comparator with the tie-break turned round: of two candidates at
\* the same height the one further right goes first.
BeforeRightmost(a, b) ==
    IF Abs(a.y - b.y) < TieTolerance THEN a.x > b.x ELSE a.y < b.y

\* The comparator of the sort: a goes before b.
Before(a, b) ==
    IF Abs(a.y - b.y) < TieTolerance THEN a.x < b.x ELSE a.y < b.y

\* validCandidates.sort(...)[0]: the head of the stably sorted list, which is
\* the earliest candidate no other candidate goes before.
RECURSIVE FirstSorted(_, _)
FirstSorted(best, rest) ==
    IF rest = <<>> THEN best
    ELSE IF Before(Head(rest), best) THEN FirstSorted(Head(rest), Tail(rest))
         ELSE FirstSorted(best, Tail(rest))

\* The end of findBestPosition, given the floor candidates: the other
\* candidates are generated, all are filtered, and the best is returned
\* (<<>> is null, <<pos>> a position).
BestOf(floorCandidates, placed, radius, maxWidth, maxHeight) ==
    LET candidates ==
            floorCandidates
            \o AroundCandidates(1, radius, placed, maxWidth, maxHeight)
            \o PairCandidates(1, 2, radius, placed, maxWidth, maxHeight)
        valid == validCandidates(candidates, radius, placed, maxWidth, maxHeight)
    IN  IF valid = <<>> THEN <<>>
        ELSE <<FirstSorted(Head(valid), Tail(valid))>>

\* The first branch of findBestPosition without its fit test: the anchor
\* (radius, radius) is returned whatever the rectangle.
FirstPositionUnchecked(radius, maxWidth, maxHeight) ==
    <<[x |-> radius, y |-> radius]>>

\* The first branch of findBestPosition: no circle placed yet.
FirstPosition(radius, maxWidth, maxHeight) ==
    IF radius * 2 <= maxWidth /\ radius * 2 <= maxHeight
    THEN <<[x |-> radius, y |-> radius]>>
    ELSE <<>>

findBestPosition(placed, radius, maxWidth, maxHeight) ==
    IF Len(placed) = 0 THEN FirstPosition(radius, maxWidth, maxHeight)
    ELSE BestOf(FloorCandidates(radius, radius, placed, maxWidth, maxHeight),
                placed, radius, maxWidth, maxHeight)

\* ------------------------------------------------------------- aggregator

\* Infinity, as calculateVolumesNeededByPacking uses it: above every count.
Infinity == 2147483647

\* v.f || 0 for a numeric field that may be absent.
OrZero(v, f) == IF f \in DOMAIN v THEN v[f] ELSE 0

\* The fields of calculatePipeResult the aggregator reads.  The pipe's
\* diameter and standard length are taken as mm and converted to cm (/ 10),
\* the container's dimensions are cm: floor(width / (diameter / 10)) is
\* floor(width * 10 / diameter).
calculatePipeResult(pipe, v) ==
    LET externalDiameter == OrZero(pipe, "externalDiameter")
        wallThickness    == OrZero(pipe, "wallThickness")
        standardLength   == OrZero(pipe, "standardLength")
        quantityInMeters == OrZero(pipe, "quantityInMeters")
        weightPerMeter   == OrZero(pipe, "weightPerMeter")
        containerWidth   == OrZero(v, "width")
        containerHeight  == OrZero(v, "height")
        containerLength  == OrZero(v, "length")
        sized            == externalDiameter > 0 /\ standardLength > 0
        pipesPerRow      == IF sized THEN (containerWidth * 10) \div externalDiameter ELSE 0
        pipesPerColumn   == IF sized THEN (containerHeight * 10) \div externalDiameter ELSE 0
        pipeFitsInLength == sized /\ standardLength <= containerLength * 10
        pipesAlongLength == IF pipeFitsInLength
                            THEN (containerLength * 10) \div standardLength ELSE 0
    IN  [id                   |-> pipe.id,
         externalDiameterMm   |-> externalDiameter,
         internalDiameterMm   |-> externalDiameter - 2 * wallThickness,
         standardLengthMm     |-> standardLength,
         weightPerMeter       |-> weightPerMeter,
         quantityInMeters     |-> quantityInMeters,
         numberOfPipes        |-> IF standardLength > 0
                                  THEN CeilDiv(quantityInMeters * 1000, standardLength)
                                  ELSE 0,
         totalWeight          |-> quantityInMeters * weightPerMeter,
         pipesPerRow          |-> pipesPerRow,
         pipesPerColumn       |-> pipesPerColumn,
         pipesPerCrossSection |-> pipesPerRow * pipesPerColumn,
         pipesAlongLength     |-> pipesAlongLength,
         pipesPerContainer    |-> pipesPerRow * pipesPerColumn * pipesAlongLength,
         pipeFitsInLength     |-> pipeFitsInLength]

\* The loop of calculateVolumesNeededByPacking from pipe i on:
\* maxContainersByPacking after it.
RECURSIVE ContainersByPacking(_, _, _, _)
ContainersByPacking(pipeResults, i, containerLength, maxSoFar) ==
    IF i > Len(pipeResults) THEN maxSoFar
    ELSE LET pipe == pipeResults[i] IN
         IF pipe.numberOfPipes = 0
         THEN ContainersByPacking(pipeResults, i + 1, containerLength, maxSoFar)
         ELSE IF pipe.standardLengthMm > containerLength * 10
                 \/ pipe.pipesPerContainer <= 0
              THEN ContainersByPacking(pipeResults, i + 1, containerLength, Infinity)
              ELSE ContainersByPacking(pipeResults, i + 1, containerLength,
                       Max(maxSoFar,
                           CeilDiv(pipe.numberOfPipes, pipe.pipesPerContainer)))

\* byWeight with the division guarded by a capacity of at least 1 in the
\* place of the test weightCapacity > 0.
ByWeightAtLeastOne(totalWeight, weightCapacity) ==
    CeilDiv(totalWeight, Max(weightCapacity, 1))

\* byWeight: weightCapacity > 0 ? Math.ceil(totalWeight / weightCapacity) : 0
ByWeight(totalWeight, weightCapacity) ==
    IF weightCapacity > 0 THEN CeilDiv(totalWeight, weightCapacity) ELSE 0

\* The limiting factor with "both" for every pair of equal counts, 0 and 0
\* included.
LimitingFactorEqualIsBoth(maxContainersByPacking, byWeight) ==
    IF maxContainersByPacking > byWeight THEN "packing"
    ELSE IF byWeight > maxContainersByPacking THEN "weight"
    ELSE "both"

\* The limiting factor of a feasible result.
LimitingFactor(maxContainersByPacking, byWeight) ==
    IF maxContainersByPacking > byWeight THEN "packing"
    ELSE IF byWeight > maxContainersByPacking THEN "weight"
    ELSE IF maxContainersByPacking > 0 /\ maxContainersByPacking = byWeight THEN "both"
    ELSE "none"

\* calculateVolumesNeededByPacking with the total taken as the larger of the
\* two counts, without the floor of 1.
calculateVolumesNeededNoFloor(pipeResults, totalWeight, v) ==
    LET containerLength == OrZero(v, "length")
        weightCapacity  == OrZero(v, "weightCapacity")
        maxContainersByPacking ==
            ContainersByPacking(pipeResults, 1, containerLength, 0)
        byWeight == ByWeight(totalWeight, weightCapacity)
    IN  IF Sign(OrZero(v, "width")) * Sign(OrZero(v, "height")) * Sign(containerLength) <= 0
        THEN [total |-> 0, byPacking |-> 0, byWeight |-> 0,
              limitingFactor |-> "none"]
        ELSE IF maxContainersByPacking = Infinity
        THEN [total |-> Infinity, byPacking |-> Infinity, byWeight |-> byWeight,
              limitingFactor |-> "packing",
              error |-> "Some pipes cannot fit in the container"]
        ELSE [total |-> Max(maxContainersByPacking, byWeight),
              byPacking |-> maxContainersByPacking,
              byWeight |-> byWeight,
              limitingFactor |-> LimitingFactor(maxContainersByPacking, byWeight)]

calculateVolumesNeededByPacking(pipeResults, totalWeight, v) ==
    LET containerWidth  == OrZero(v, "width")
        containerHeight == OrZero(v, "height")
        containerLength == OrZero(v, "length")
        weightCapacity  == OrZero(v, "weightCapacity")
        maxContainersByPacking ==
            ContainersByPacking(pipeResults, 1, containerLength, 0)
        byWeight == ByWeight(totalWeight, weightCapacity)
    IN  IF Sign(containerWidth) * Sign(containerHeight) * Sign(containerLength) <= 0
        THEN [total |-> 0, byPacking |-> 0, byWeight |-> 0,
              limitingFactor |-> "none"]
        ELSE IF maxContainersByPacking = Infinity
        THEN [total |-> Infinity, byPacking |-> Infinity, byWeight |-> byWeight,
              limitingFactor |-> "packing",
              error |-> "Some pipes cannot fit in the container"]
        ELSE [total |-> Max(Max(maxContainersByPacking, byWeight), 1),
              byPacking |-> maxContainersByPacking,
              byWeight |-> byWeight,
              limitingFactor |-> LimitingFactor(maxContainersByPacking, byWeight)]

RECURSIVE SumField(_, _)
SumField(rs, f) == IF rs = <<>> THEN 0 ELSE Head(rs)[f] + SumField(Tail(rs), f)

calculateResults(pipes, v) ==
    LET pipeResults == [i \in 1..Len(pipes) |-> calculatePipeResult(pipes[i], v)]
        totalWeight == SumField(pipeResults, "totalWeight")
    IN  [pipeResults   |-> pipeResults,
         totalWeight   |-> totalWeight,
         totalPipes    |-> SumField(pipeResults, "numberOfPipes"),
         totalLength   |-> SumField(pipeResults, "quantityInMeters"),
         volumesNeeded |-> calculateVolumesNeededByPacking(pipeResults, totalWeight, v),
         valid         |-> TRUE]


\* ------------------------------------------------------------------ state

VARIABLES
    volume,         \* the caller's volume: width, height, length, weightCapacity
    pipeTypes,      \* the caller's pipe array
    minSpace,       \* config.minSpace
    allowance,      \* config.allowance
    pc,             \* where the run is: "start", "loop", "for", "floor", "done"
                    \* ("resolver" when only the resolver is called)
    pipeTemplates,  \* the sorted templates of the run
    placedCircles,  \* the circles placed so far
    arrangement,    \* the result being built
    placedAny,      \* the while loop's flag
    iterations,     \* the while loop's round counter
    next,           \* the index of the template the for loop is at
    run,            \* which call on the same caller data this is (1 or 2)
    firstRun,       \* what the first call returned (<<>> before it returns)
    results,        \* what calculateResults returned (<<>> before it is called)
    nesting,        \* what createNestedGroups returned (<<>> before it is called)
    possibilities,  \* what findTelescopingPossibilities returned (<<>> before)
    floor,          \* the floor loop of findBestPosition, when it is stepped:
                    \* its x, the candidates pushed and the passes made
    containers,     \* the container table's breakdown, as far as it is built
    remainingPipes, \* the table's remaining demand: pipe id -> pipes left
    index,          \* the table's loop counter (i in the code)
    state,          \* the calculator store: what useReducer holds
    calls,          \* the calculate() calls waiting at their await: the
                    \* volume, pipes, boxes and config each of them closed over
    nextId,         \* the ids ADD_PIPE and ADD_BOX have handed out so far
    computedFrom    \* history: while results is non-null, the volume, pipes,
                    \* boxes and config closed over by the call that
                    \* dispatched them

vars == <<volume, pipeTypes, minSpace, allowance, pc, pipeTemplates,
          placedCircles, arrangement, placedAny, iterations, next, run, firstRun,
          results, nesting, possibilities, floor,
          containers, remainingPipes, index, state, calls, nextId,
          computedFrom>>

inputs == <<volume, pipeTypes, minSpace, allowance>>

\* The container table and the store: untouched by the engine, the resolver
\* and the aggregator.
ui == <<containers, remainingPipes, index, state, calls, nextId, computedFrom>>

table == <<containers, remainingPipes, index>>

store == <<state, calls, nextId, computedFrom>>

\* No table is rendered.
NoTable == containers = <<>> /\ remainingPipes = <<>> /\ index = 0

\* No store is mounted.
NoStore == state = <<>> /\ calls = <<>> /\ nextId = 0 /\ computedFrom = <<>>

\* The arrangement object arrangePipesInCrossSection starts from.
\* pipeCounts has an entry for a pipe id once a circle holding it is placed.
\* pipesExtendBeyondVolume and maxPipeLength are undefined in the code until
\* they are first assigned; they are read as falsy, which is FALSE and 0 here.
NewArrangement ==
    [layers                  |-> <<>>,
     pipeCounts              |-> <<>>,
     totalPipes              |-> 0,
     totalWeight             |-> 0,
     volumeUsed              |-> 0,
     positions               |-> <<>>,
     weightCapacityExceeded  |-> FALSE,
     pipesExtendBeyondVolume |-> FALSE,
     maxPipeLength           |-> 0]

\* The placed circles of a call that carries over those of the call before.
LeftoverPlacedCircles == placedCircles

\* const placedCircles = []: every call starts with no circle placed.
NewPlacedCircles == <<>>

\* The stepped floor loop when findBestPosition is not inside it.
NoFloor == [x |-> 0, candidates |-> <<>>, passes |-> 0]

\* What optimizeArrangement returns when it rejects its input.
ErrorResult(reason) == [error |-> reason, layers |-> <<>>, pipeCounts |-> <<>>]

\* pipeTypes.filter(p => p.externalDiameter > 0 && p.length > 0)
validPipes(pipes) ==
    SelectSeq(pipes, LAMBDA p : p.externalDiameter > 0 /\ p.length > 0)

\* !volume.length || !volume.width || !volume.height
InvalidVolume(v) == Falsy(v, "length") \/ Falsy(v, "width") \/ Falsy(v, "height")

\* The counts when only the first pipe of the template (the outer pipe of a
\* group) is counted.
CountPipesOuterOnly(counts, pipes) ==
    LET pipe == Head(pipes)
        old  == IF pipe.id \in DOMAIN counts THEN counts[pipe.id]
                ELSE [pipe |-> pipe, count |-> 0, totalLength |-> 0,
                      totalWeight |-> 0]
    IN  [id \in DOMAIN counts \cup {pipe.id} |->
            IF id = pipe.id
            THEN [old EXCEPT !.count = @ + 1,
                             !.totalLength = @ + pipe.length,
                             !.totalWeight = @ + PipeWeight(pipe)]
            ELSE counts[id]]

\* The counts after one circle of template t is placed: the entry of every
\* member pipe is created if missing and its count, length and weight grow.
RECURSIVE CountPipes(_, _)
CountPipes(counts, pipes) ==
    IF pipes = <<>> THEN counts
    ELSE LET pipe == Head(pipes)
             old  == IF pipe.id \in DOMAIN counts THEN counts[pipe.id]
                     ELSE [pipe |-> pipe, count |-> 0, totalLength |-> 0,
                           totalWeight |-> 0]
             new  == [old EXCEPT !.count = @ + 1,
                                 !.totalLength = @ + pipe.length,
                                 !.totalWeight = @ + PipeWeight(pipe)]
         IN  CountPipes([id \in DOMAIN counts \cup {pipe.id} |->
                            IF id = pipe.id THEN new ELSE counts[id]],
                        Tail(pipes))

\* The weight test left out: every position found is used.
WithinCapacityNoLimit(v, newTotalWeight) == TRUE

\* The weight test with arrangement.totalWeight in the place of
\* newTotalWeight: the total before the circle is compared.
WithinCapacityBefore(v, newTotalWeight) ==
    IF Falsy(v, "weightCapacity") THEN TRUE
    ELSE arrangement.totalWeight <= v.weightCapacity * 100

\* !weightCapacity || newTotalWeight <= weightCapacity, weightCapacity being
\* v.weightCapacity (the capacity is in kg, weights are in hundredths of a kg).
WithinCapacity(v, newTotalWeight) ==
    IF Falsy(v, "weightCapacity") THEN TRUE
    ELSE newTotalWeight <= v.weightCapacity * 100

\* The effective radius of a template's circle: radius + spacing / 2.
EffectiveRadius(template, spacing) == template.diameter \div 2 + spacing \div 2

\* The position findBestPosition returns for the template the loop is at.
PositionFor(template) ==
    findBestPosition(placedCircles, EffectiveRadius(template, minSpace),
                     volume.width, volume.height)

\* The layer the run ends with: one item per placed circle.
LayerOf(placed, templates, height) ==
    [height  |-> height,
     yOffset |-> 0,
     items   |-> [i \in 1..Len(placed) |->
                    [type        |-> "pipe",
                     id          |-> templates[placed[i].item].pipes[1].id,
                     x           |-> placed[i].x,
                     y           |-> placed[i].y,
                     diameter    |-> placed[i].radius * 2,
                     radius      |-> placed[i].radius,
                     nestedPipes |-> Tail(templates[placed[i].item].pipes)]]]

\* ----------------------------------------------------------------- inputs

\* The bounds of the model: how many pipe types a caller's array holds.
MaxPipes == 2

\* A pipe object: the fields the engine reads (length, in cm) and the fields
\* the aggregator reads (standardLength, in mm; quantityInMeters).
Pipe(id, ext, int, len, wpm, qty) ==
    [id |-> id, externalDiameter |-> ext, internalDiameter |-> int,
     length |-> len, weightPerMeter |-> wpm,
     standardLength |-> len * 10, quantityInMeters |-> qty]

\* The pipe types callers choose from (weights of one pipe: 60, 20 and
\* 30 kg).  The third nests inside the first when the allowance is 0; the
\* fourth is invalid (no diameter).
PipeCatalogue ==
    { Pipe(1, 2000, 1600, 300, 20, 30),
      Pipe(2, 3000, 2600, 200, 10, 0),
      Pipe(3, 1000,  800, 100, 30, 5),
      Pipe(4,    0,    0, 100, 10, 1) }

RECURSIVE ArraysOf(_, _)
ArraysOf(S, n) ==
    IF n = 0 THEN {<<>>}
    ELSE LET shorter == ArraysOf(S, n - 1)
         IN  shorter \cup
             { Append(a, p) : a \in {b \in shorter : Len(b) = n - 1},
                              p \in S }

HasDistinctIds(a) == \A i, j \in 1..Len(a) : i # j => a[i].id # a[j].id

\* The caller's pipe arrays: up to MaxPipes catalogue pipes, ids distinct.
PipeArrays == { a \in ArraysOf(PipeCatalogue, MaxPipes) : HasDistinctIds(a) }

Volume(w, h, cap) == [width |-> w, height |-> h, length |-> 250, weightCapacity |-> cap]

\* The caller's volumes: valid ones with no weight limit (0) or 100 kg, one
\* that leaves weightCapacity out, and invalid rectangles: width 0, width
\* left out, width negative.
Volumes ==
    { Volume(w, h, cap) : w \in {3000, 4000}, h \in {2000, 4000}, cap \in {0, 100} }
    \cup { [width |-> 3000, height |-> 2000, length |-> 250] }
    \cup { Volume(0, 2000, 0) }
    \cup { [height |-> 2000, length |-> 250, weightCapacity |-> 0] }
    \cup { Volume(-3000, 2000, 0) }

Spacings == {0, 400}

Allowances == {0, 400}

\* ---------------------------------------------------------------- actions

Init ==
    /\ volume \in Volumes
    /\ pipeTypes \in PipeArrays
    /\ minSpace \in Spacings
    /\ allowance \in Allowances
    /\ pc = "start"
    /\ pipeTemplates = <<>>
    /\ placedCircles = <<>>
    /\ arrangement = NewArrangement
    /\ placedAny = TRUE
    /\ iterations = 0
    /\ next = 1
    /\ run = 1
    /\ firstRun = <<>>
    /\ results = <<>>
    /\ nesting = <<>>
    /\ possibilities = <<>>
    /\ floor = NoFloor
    /\ NoTable /\ NoStore

\* The caller's array after a call that sorted or annotated the array
\* working: the functions build their working arrays and objects themselves
\* (pipeTypes.filter and [...pipeTypes] in the engine, [...pipes] and
\* { ...pipe } in findTelescopingPossibilities), so the caller's array and
\* its objects are as they were.  The second definition is the outcome of
\* working on the caller's own array.
CallerPipesShared(pipes, working) == working

CallerPipes(pipes, working) == pipes

\* optimizeArrangement returns at once: the volume is invalid.
RejectVolume ==
    /\ pc = "start"
    /\ InvalidVolume(volume)
    /\ arrangement' = ErrorResult("Invalid volume dimensions")
    /\ pc' = "done"
    /\ UNCHANGED <<inputs, pipeTemplates, placedCircles, placedAny, iterations,
                   next, run, firstRun, results,
                   possibilities, floor, nesting>>
    /\ UNCHANGED ui

\* optimizeArrangement returns at once: no pipes, or none that is valid.
RejectPipes ==
    /\ pc = "start"
    /\ ~InvalidVolume(volume)
    /\ \/ /\ Len(pipeTypes) = 0
          /\ arrangement' = ErrorResult("No pipes specified")
       \/ /\ Len(pipeTypes) > 0
          /\ Len(validPipes(pipeTypes)) = 0
          /\ arrangement' = ErrorResult("No valid pipes")
    /\ pc' = "done"
    /\ UNCHANGED <<inputs, pipeTemplates, placedCircles, placedAny, iterations,
                   next, run, firstRun, results,
                   possibilities, floor, nesting>>
    /\ UNCHANGED ui

\* optimizeArrangement up to the while loop of arrangePipesInCrossSection:
\* the valid pipes are grouped, the templates built and sorted.  The caller
\* passes no boxes, so arrangeBoxes is not called.
Arrange ==
    /\ pc = "start"
    /\ ~InvalidVolume(volume)
    /\ Len(validPipes(pipeTypes)) > 0
    /\ nesting' = <<createNestedGroups(validPipes(pipeTypes), allowance)>>
    /\ pipeTemplates' = BuildTemplates(nesting'[1].nestedGroups,
                                       nesting'[1].standalonePipes)
    /\ arrangement' = NewArrangement
    /\ placedCircles' = NewPlacedCircles
    /\ placedAny' = TRUE
    /\ iterations' = 0
    /\ next' = 1
    /\ pc' = "loop"
    /\ pipeTypes' = CallerPipes(pipeTypes,
                                SortByExternalDiameter(validPipes(pipeTypes)))
    /\ UNCHANGED <<volume, minSpace, allowance, run, firstRun, results,
                   possibilities, floor>>
    /\ UNCHANGED ui

\* while (placedAny && iterations < maxIterations): a round starts.
RoundStart ==
    /\ pc = "loop"
    /\ placedAny /\ iterations < maxIterations
    /\ placedAny' = FALSE
    /\ iterations' = iterations + 1
    /\ next' = 1
    /\ pc' = "for"
    /\ UNCHANGED <<inputs, pipeTemplates, placedCircles, arrangement, run, firstRun, results,
                   possibilities, floor, nesting>>
    /\ UNCHANGED ui

\* The while loop ends: the layer is built and the arrangement returned.
LoopExit ==
    /\ pc = "loop"
    /\ ~(placedAny /\ iterations < maxIterations)
    /\ arrangement' =
           [arrangement EXCEPT
               !.layers = <<LayerOf(placedCircles, pipeTemplates, volume.height)>>,
               !.positions = placedCircles]
    /\ pc' = "done"
    /\ UNCHANGED <<inputs, pipeTemplates, placedCircles, placedAny, iterations,
                   next, run, firstRun, results,
                   possibilities, floor, nesting>>
    /\ UNCHANGED ui

\* The body of the for loop without placedAny = true after a placement.
ForBodyFlagNotSet(position) ==
    LET template == pipeTemplates[next]
        newTotalWeight == arrangement.totalWeight + template.weight
    IN  /\ IF position = <<>>
           THEN UNCHANGED <<placedCircles, arrangement>>
           ELSE IF WithinCapacity(volume, newTotalWeight)
           THEN /\ placedCircles' = Append(placedCircles,
                       [x |-> position[1].x, y |-> position[1].y,
                        radius |-> template.diameter \div 2,
                        effectiveRadius |-> EffectiveRadius(template, minSpace),
                        item |-> next])
                /\ arrangement' =
                       [arrangement EXCEPT
                           !.pipeCounts = CountPipes(@, template.pipes),
                           !.totalPipes = @ + Len(template.pipes),
                           !.totalWeight = newTotalWeight,
                           !.pipesExtendBeyondVolume =
                               @ \/ template.length > volume.length,
                           !.maxPipeLength =
                               IF template.length > volume.length
                               THEN Max(@, template.length) ELSE @]
           ELSE /\ arrangement' =
                       [arrangement EXCEPT !.weightCapacityExceeded = TRUE]
                /\ UNCHANGED placedCircles
        /\ UNCHANGED placedAny
        /\ next' = next + 1

\* The body of the for loop once findBestPosition has returned position
\* (<<>> for null): the circle is placed and counted if the weight allows
\* it, the flag is set if it does not, and nothing happens without a position.
ForBody(position) ==
    LET template == pipeTemplates[next]
        newTotalWeight == arrangement.totalWeight + template.weight
    IN  /\ IF position = <<>>
           THEN UNCHANGED <<placedCircles, arrangement, placedAny>>
           ELSE IF WithinCapacity(volume, newTotalWeight)
           THEN /\ placedCircles' = Append(placedCircles,
                       [x |-> position[1].x, y |-> position[1].y,
                        radius |-> template.diameter \div 2,
                        effectiveRadius |-> EffectiveRadius(template, minSpace),
                        item |-> next])
                /\ arrangement' =
                       [arrangement EXCEPT
                           !.pipeCounts = CountPipes(@, template.pipes),
                           !.totalPipes = @ + Len(template.pipes),
                           !.totalWeight = newTotalWeight,
                           !.pipesExtendBeyondVolume =
                               @ \/ template.length > volume.length,
                           !.maxPipeLength =
                               IF template.length > volume.length
                               THEN Max(@, template.length) ELSE @]
                /\ placedAny' = TRUE
           ELSE /\ arrangement' =
                       [arrangement EXCEPT !.weightCapacityExceeded = TRUE]
                /\ UNCHANGED <<placedCircles, placedAny>>
        /\ next' = next + 1

\* One pass of the for loop: a position is found and the weight allows it,
\* so the circle is placed and the counts are updated.
PlaceCircle ==
    /\ pc = "for"
    /\ next <= Len(pipeTemplates)
    /\ PositionFor(pipeTemplates[next]) # <<>>
    /\ WithinCapacity(volume, arrangement.totalWeight + pipeTemplates[next].weight)
    /\ ForBody(PositionFor(pipeTemplates[next]))
    /\ UNCHANGED <<inputs, pc, pipeTemplates, iterations, run, firstRun, results,
                   possibilities, floor, nesting>>
    /\ UNCHANGED ui

\* One pass of the for loop: a position is found but the weight capacity
\* would be exceeded, so nothing is placed and the flag is set.
RefuseWeight ==
    /\ pc = "for"
    /\ next <= Len(pipeTemplates)
    /\ PositionFor(pipeTemplates[next]) # <<>>
    /\ ~WithinCapacity(volume, arrangement.totalWeight + pipeTemplates[next].weight)
    /\ ForBody(PositionFor(pipeTemplates[next]))
    /\ UNCHANGED <<inputs, pc, pipeTemplates, iterations, run, firstRun, results,
                   possibilities, floor, nesting>>
    /\ UNCHANGED ui

\* One pass of the for loop: findBestPosition returns null.
NoPosition ==
    /\ pc = "for"
    /\ next <= Len(pipeTemplates)
    /\ PositionFor(pipeTemplates[next]) = <<>>
    /\ ForBody(<<>>)
    /\ UNCHANGED <<inputs, pc, pipeTemplates, iterations, run, firstRun, results,
                   possibilities, floor, nesting>>
    /\ UNCHANGED ui

\* The for loop has visited every template: back to the while test.
RoundEnd ==
    /\ pc = "for"
    /\ next > Len(pipeTemplates)
    /\ pc' = "loop"
    /\ UNCHANGED <<inputs, pipeTemplates, placedCircles, arrangement, placedAny,
                   iterations, next, run, firstRun, results,
                   possibilities, floor, nesting>>
    /\ UNCHANGED ui

\* The caller calls optimizeArrangement again with the same arguments.
RunAgain ==
    /\ pc = "done"
    /\ run = 1
    /\ firstRun' = <<[arrangement   |-> arrangement,
                       nesting       |-> nesting,
                       pipeTemplates |-> pipeTemplates]>>
    /\ run' = 2
    /\ pc' = "start"
    /\ UNCHANGED <<inputs, pipeTemplates, placedCircles, arrangement, placedAny,
                   iterations, next, results,
                   possibilities, floor, nesting>>
    /\ UNCHANGED ui

\* The caller passes the same pipes and volume to calculateResults.
CalculateResults ==
    /\ pc = "done"
    /\ run = 2
    /\ results = <<>>
    /\ results' = <<calculateResults(pipeTypes, volume)>>
    /\ UNCHANGED <<inputs, pc, pipeTemplates, placedCircles, arrangement,
                   placedAny, iterations, next, run, firstRun,
                   possibilities, floor, nesting>>
    /\ UNCHANGED ui

Next ==
    \/ RejectVolume
    \/ RejectPipes
    \/ Arrange
    \/ RoundStart
    \/ LoopExit
    \/ PlaceCircle
    \/ RefuseWeight
    \/ NoPosition
    \/ RoundEnd
    \/ RunAgain
    \/ CalculateResults

Spec == Init /\ [][Next]_vars

\* ------------------------------------------------- the resolver on its own

\* How many pipe types an array given to the resolver holds.
MaxNestPipes == 3

\* The pipes the resolver is given: an outer pipe of diameter 20 and length
\* 200, two pipes of diameter 15 (lengths 150 and 300), a pipe of diameter 10
\* and a pipe with no diameter.
NestCatalogue ==
    { Pipe(1, 20000, 18000, 200, 20, 30),
      Pipe(2, 15000, 13000, 150, 10, 10),
      Pipe(3, 15000, 13000, 300, 10, 10),
      Pipe(4, 10000,  8000, 150, 30, 5),
      Pipe(5,     0,     0, 100, 10, 1) }

NestArrays == { a \in ArraysOf(NestCatalogue, MaxNestPipes) : HasDistinctIds(a) }

NestAllowances == {0, 1000, 4000}

\* A caller holds pipes and an allowance and has called neither
\* createNestedGroups nor findTelescopingPossibilities yet.
InitNest ==
    /\ volume = Volume(3000, 2000, 0)
    /\ pipeTypes \in NestArrays
    /\ minSpace = 0
    /\ allowance \in NestAllowances
    /\ pc = "resolver"
    /\ pipeTemplates = <<>>
    /\ placedCircles = <<>>
    /\ arrangement = NewArrangement
    /\ placedAny = TRUE
    /\ iterations = 0
    /\ next = 1
    /\ run = 1
    /\ firstRun = <<>>
    /\ results = <<>>
    /\ nesting = <<>>
    /\ possibilities = <<>>
    /\ floor = NoFloor
    /\ NoTable /\ NoStore

\* createNestedGroups(pipeTypes, allowance), as calculateMaxPipeQuantities
\* calls it: on the caller's pipes, unfiltered.
Group ==
    /\ pc = "resolver"
    /\ nesting = <<>>
    /\ nesting' = <<createNestedGroups(pipeTypes, allowance)>>
    /\ pipeTypes' = CallerPipes(pipeTypes, SortByExternalDiameter(pipeTypes))
    /\ UNCHANGED <<volume, minSpace, allowance, pc, pipeTemplates,
                   placedCircles, arrangement, placedAny, iterations, next,
                   run, firstRun, results, possibilities, floor>>
    /\ UNCHANGED ui

\* findTelescopingPossibilities(pipeTypes, allowance).
FindPossibilities ==
    /\ pc = "resolver"
    /\ possibilities = <<>>
    /\ possibilities' = <<findTelescopingPossibilities(pipeTypes, allowance)>>
    /\ pipeTypes' = CallerPipes(pipeTypes, possibilities'[1].pipes)
    /\ UNCHANGED <<volume, minSpace, allowance, pc, pipeTemplates,
                   placedCircles, arrangement, placedAny, iterations, next,
                   run, firstRun, results, nesting, floor>>
    /\ UNCHANGED ui

NextNest ==
    \/ Group
    \/ FindPossibilities

SpecNest == InitNest /\ [][NextNest]_vars

\* ------------------------------- the engine with the floor loop stepped

\* How many passes of the floor loop of one findBestPosition call are
\* followed.
MaxFloorPasses == 10

\* The pipes calculateMaxPipeQuantities is given: it does not filter them,
\* so a pipe with no diameter reaches the engine.
LoopCatalogue ==
    { Pipe(3, 1000, 800, 100, 30, 5),
      Pipe(4,    0,   0, 100, 10, 1) }

LoopArrays == { a \in ArraysOf(LoopCatalogue, MaxPipes) : HasDistinctIds(a) }

LoopVolumes == { Volume(3000, 2000, 0), Volume(2000, 1000, 100) }

LoopSpacings == {0, 1000}

LoopAllowances == {0, 500}

InitLoop ==
    /\ volume \in LoopVolumes
    /\ pipeTypes \in LoopArrays
    /\ minSpace \in LoopSpacings
    /\ allowance \in LoopAllowances
    /\ pc = "start"
    /\ pipeTemplates = <<>>
    /\ placedCircles = <<>>
    /\ arrangement = NewArrangement
    /\ placedAny = TRUE
    /\ iterations = 0
    /\ next = 1
    /\ run = 1
    /\ firstRun = <<>>
    /\ results = <<>>
    /\ nesting = <<>>
    /\ possibilities = <<>>
    /\ floor = NoFloor
    /\ NoTable /\ NoStore

\* calculateMaxPipeQuantities up to the while loop of
\* arrangePipesInCrossSection: the pipes are grouped as given, the templates
\* built and sorted.
MaxQuantities ==
    /\ pc = "start"
    /\ nesting' = <<createNestedGroups(pipeTypes, allowance)>>
    /\ pipeTemplates' = BuildTemplates(nesting'[1].nestedGroups,
                                       nesting'[1].standalonePipes)
    /\ arrangement' = NewArrangement
    /\ placedCircles' = NewPlacedCircles
    /\ placedAny' = TRUE
    /\ iterations' = 0
    /\ next' = 1
    /\ pc' = "loop"
    /\ pipeTypes' = CallerPipes(pipeTypes, SortByExternalDiameter(pipeTypes))
    /\ UNCHANGED <<volume, minSpace, allowance, run, firstRun, results,
                   possibilities, floor>>
    /\ UNCHANGED ui

\* findBestPosition with no circle placed: the first branch decides, and the
\* body of the for loop follows.
AnchorFirst ==
    /\ pc = "for"
    /\ next <= Len(pipeTemplates)
    /\ Len(placedCircles) = 0
    /\ LET radius == EffectiveRadius(pipeTemplates[next], minSpace)
       IN  ForBody(FirstPosition(radius, volume.width, volume.height))
    /\ UNCHANGED <<inputs, pc, pipeTemplates, iterations, run, firstRun, results,
                   possibilities, floor, nesting>>
    /\ UNCHANGED ui

\* findBestPosition with circles placed: the floor loop starts, let x = radius.
FloorEnter ==
    /\ pc = "for"
    /\ next <= Len(pipeTemplates)
    /\ Len(placedCircles) > 0
    /\ floor' = [x          |-> EffectiveRadius(pipeTemplates[next], minSpace),
                 candidates |-> <<>>,
                 passes     |-> 0]
    /\ pc' = "floor"
    /\ UNCHANGED <<inputs, pipeTemplates, placedCircles, arrangement, placedAny,
                   iterations, next, run, firstRun, results, possibilities,
                   nesting>>
    /\ UNCHANGED ui

\* One pass of the floor loop: x <= maxWidth - radius, so the position
\* (x, radius) is pushed if canPlaceCircle accepts it, and x += radius / 2.
FloorPass ==
    /\ pc = "floor"
    /\ floor.passes < MaxFloorPasses
    /\ LET radius == EffectiveRadius(pipeTemplates[next], minSpace)
       IN  /\ floor.x <= volume.width - radius
           /\ floor' =
                  [x          |-> floor.x + radius \div 2,
                   candidates |->
                       IF canPlaceCircle(floor.x, radius, radius, placedCircles,
                                         volume.width, volume.height)
                       THEN Append(floor.candidates, [x |-> floor.x, y |-> radius])
                       ELSE floor.candidates,
                   passes     |-> floor.passes + 1]
    /\ UNCHANGED <<inputs, pc, pipeTemplates, placedCircles, arrangement,
                   placedAny, iterations, next, run, firstRun, results,
                   possibilities, nesting>>
    /\ UNCHANGED ui

\* The floor loop ends: x > maxWidth - radius.  The rest of findBestPosition
\* and the body of the for loop follow.
FloorExit ==
    /\ pc = "floor"
    /\ LET radius == EffectiveRadius(pipeTemplates[next], minSpace)
       IN  /\ ~(floor.x <= volume.width - radius)
           /\ ForBody(BestOf(floor.candidates, placedCircles, radius,
                             volume.width, volume.height))
    /\ floor' = NoFloor
    /\ pc' = "for"
    /\ UNCHANGED <<inputs, pipeTemplates, iterations, run, firstRun, results,
                   possibilities, nesting>>
    /\ UNCHANGED ui

NextLoop ==
    \/ MaxQuantities
    \/ RoundStart
    \/ LoopExit
    \/ AnchorFirst
    \/ FloorEnter
    \/ FloorPass
    \/ FloorExit
    \/ RoundEnd

LoopSpec == InitLoop /\ [][NextLoop]_vars

\* ----------------------------------------------- the aggregator on its own

\* How many pipe types an order given to calculateResults holds.
MaxOrderPipes == 2

\* An order line as calculatePipeResult reads it: diameter and standard
\* length in mm, quantity in m, weight in kg per m.
OrderPipe(id, ext, std, qty, wpm) ==
    [id |-> id, externalDiameter |-> ext, standardLength |-> std,
     quantityInMeters |-> qty, weightPerMeter |-> wpm]

\* The order lines: 10 pipes of 200 mm (300 kg), 100 pipes of 500 mm
\* (6000 kg), one pipe of 3000 mm (wider than any container), one pipe 13 m
\* long (longer than any container), a line with no quantity and a line
\* with no diameter.
OrderCatalogue ==
    { OrderPipe(1,  200,  6000,  60,  5),
      OrderPipe(2,  500,  6000, 600, 10),
      OrderPipe(3, 3000,  6000,   6, 50),
      OrderPipe(4,  200, 13000,  13,  5),
      OrderPipe(5,  200,  6000,   0,  5),
      [id |-> 6, standardLength |-> 6000, quantityInMeters |-> 6,
       weightPerMeter |-> 5] }

OrderArrays == { a \in ArraysOf(OrderCatalogue, MaxOrderPipes) : HasDistinctIds(a) }

\* The containers (cm, kg): 1200 x 235 x 239 with no weight limit, with
\* limits of 300, 1000 and 26000 kg and with no weightCapacity field, and
\* containers of no volume: width 0, width negative, height left out.
OrderVolumes ==
    { [length |-> 1200, width |-> 235, height |-> 239, weightCapacity |-> cap] :
          cap \in {0, 300, 1000, 26000} }
    \cup { [length |-> 1200, width |-> 235, height |-> 239] }
    \cup { [length |-> 1200, width |-> 0, height |-> 239, weightCapacity |-> 1000] }
    \cup { [length |-> 1200, width |-> -235, height |-> 239, weightCapacity |-> 0] }
    \cup { [length |-> 1200, width |-> 235, weightCapacity |-> 1000] }

\* A caller holds an order and a container and has not called
\* calculateResults yet.
InitOrder ==
    /\ volume \in OrderVolumes
    /\ pipeTypes \in OrderArrays
    /\ minSpace = 0
    /\ allowance = 0
    /\ pc = "aggregator"
    /\ pipeTemplates = <<>>
    /\ placedCircles = <<>>
    /\ arrangement = NewArrangement
    /\ placedAny = TRUE
    /\ iterations = 0
    /\ next = 1
    /\ run = 1
    /\ firstRun = <<>>
    /\ results = <<>>
    /\ nesting = <<>>
    /\ possibilities = <<>>
    /\ floor = NoFloor
    /\ NoTable /\ NoStore

\* calculateResults(arrangement, pipes, boxes, volume); the arrangement and
\* the boxes are not read.
Calculate ==
    /\ pc = "aggregator"
    /\ results = <<>>
    /\ results' = <<calculateResults(pipeTypes, volume)>>
    /\ UNCHANGED <<inputs, pc, pipeTemplates, placedCircles, arrangement,
                   placedAny, iterations, next, run, firstRun,
                   possibilities, floor, nesting>>
    /\ UNCHANGED ui

NextOrder == Calculate

SpecOrder == InitOrder /\ [][NextOrder]_vars

\* ------------------------------------ the engine on pipes of near-equal size

\* Two pipe types whose diameters differ by 0.008: their circles rest on the
\* floor at heights 0.004 apart.
NearCatalogue ==
    { Pipe(3, 1000, 800, 100, 30, 5),
      Pipe(5, 1008, 800, 100, 30, 5) }

NearArrays ==
    { a \in ArraysOf(NearCatalogue, MaxPipes) : HasDistinctIds(a) /\ Len(a) > 0 }

\* Rectangles one row and two rows of these circles high, with no weight
\* limit.
NearVolumes == { Volume(w, h, 0) : w \in {3000, 4000}, h \in {1500, 2500} }

\* A caller about to call optimizeArrangement with valid arguments.
InitNear ==
    /\ volume \in NearVolumes
    /\ pipeTypes \in NearArrays
    /\ minSpace \in Spacings
    /\ allowance = 0
    /\ pc = "start"
    /\ pipeTemplates = <<>>
    /\ placedCircles = <<>>
    /\ arrangement = NewArrangement
    /\ placedAny = TRUE
    /\ iterations = 0
    /\ next = 1
    /\ run = 1
    /\ firstRun = <<>>
    /\ results = <<>>
    /\ nesting = <<>>
    /\ possibilities = <<>>
    /\ floor = NoFloor
    /\ NoTable /\ NoStore

\* The steps of optimizeArrangement on valid arguments without weight limit.
NextNear ==
    \/ Arrange
    \/ RoundStart
    \/ LoopExit
    \/ PlaceCircle
    \/ NoPosition
    \/ RoundEnd

SpecNear == InitNear /\ [][NextNear]_vars

\* ------------------------------------------------------ the container table
\* containerBreakdown of ContainerTable: the breakdown is built from
\* results.pipeResults, results.volumesNeeded and the volume.  Diameters are
\* compared and divided in mm (the code's cm values are the mm values / 10,
\* the container's cm values are taken * 10); a weight is
\* count * standardLengthMm * weightPerMeter, thousandths of a kg.

\* The bound of the model: how many containers the table's loop fills
\* before the model stops following it.
MaxContainers == 6

\* x || 1
OrOne(x) == IF x = 0 THEN 1 ELSE x

\* .sort((a, b) => b.externalDiameter - a.externalDiameter), stable.
RECURSIVE InsertResult(_, _)
InsertResult(sorted, p) ==
    IF sorted = <<>> THEN <<p>>
    ELSE IF Head(sorted).externalDiameterMm >= p.externalDiameterMm
         THEN <<Head(sorted)>> \o InsertResult(Tail(sorted), p)
         ELSE <<p>> \o sorted

RECURSIVE SortResults(_)
SortResults(rs) ==
    IF rs = <<>> THEN <<>>
    ELSE InsertResult(SortResults(SubSeq(rs, 1, Len(rs) - 1)), rs[Len(rs)])

\* The pipe types with demand, largest external diameter first.
sortedPipes(pipeResults) ==
    SortResults(SelectSeq(pipeResults, LAMBDA p : p.numberOfPipes > 0))

\* The candidates with the allowance taken off the largest pipe's bore.
nestingCandidatesWithAllowance(sorted, gap) ==
    SelectSeq(Tail(sorted),
              LAMBDA p : p.externalDiameterMm <= sorted[1].internalDiameterMm - gap)

\* The smaller types that fit inside the largest pipe.
nestingCandidates(sorted) ==
    SelectSeq(Tail(sorted),
              LAMBDA p : p.externalDiameterMm <= sorted[1].internalDiameterMm)

\* remainingPipes[p.id] = p.numberOfPipes for every sorted pipe, in order:
\* the last pipe with an id sets its entry.
InitialRemaining(sorted) ==
    [id \in { sorted[k].id : k \in 1..Len(sorted) } |->
        LET last == CHOOSE k \in 1..Len(sorted) :
                        /\ sorted[k].id = id
                        /\ \A m \in k + 1..Len(sorted) : sorted[m].id # id
        IN  sorted[last].numberOfPipes]

\* The weight of count pipes of one type.
EntryWeight(pipe, count) == count * pipe.standardLengthMm * pipe.weightPerMeter

\* The large pipes of a container when the remaining demand is not read.
LargeCountUnlimited(remaining, largePipesPerContainer) == largePipesPerContainer

\* Math.min(remainingPipes[largestPipe.id] || 0, largePipesPerContainer)
LargeCount(remaining, largePipesPerContainer) ==
    Min(remaining, largePipesPerContainer)

\* The nested pipes of a container when the remaining demand is not read.
NestedCountUnlimited(remaining, largePipesInThis) == largePipesInThis

\* Math.min(remainingPipes[nestedPipe.id] || 0, largePipesInThis)
NestedCount(remaining, largePipesInThis) == Min(remaining, largePipesInThis)

\* The container after the largest pipe's entry.
WithLarge(largestPipe, rem) ==
    LET largePipesInThis == LargeCount(rem[largestPipe.id],
                                       largestPipe.pipesPerContainer)
    IN  IF largePipesInThis > 0
        THEN [pipes |-> << [diameterMm |-> largestPipe.externalDiameterMm,
                            count      |-> largePipesInThis,
                            weight     |-> EntryWeight(largestPipe, largePipesInThis),
                            nested     |-> FALSE] >>,
              containerWeight       |-> EntryWeight(largestPipe, largePipesInThis),
              totalPipesInContainer |-> largePipesInThis,
              remaining |-> [rem EXCEPT ![largestPipe.id] = @ - largePipesInThis],
              largePipesInThis |-> largePipesInThis]
        ELSE [pipes |-> <<>>, containerWeight |-> 0, totalPipesInContainer |-> 0,
              remaining |-> rem, largePipesInThis |-> largePipesInThis]

\* for (const nestedPipe of nestingCandidates), from candidate k on.
RECURSIVE WithNested(_, _, _)
WithNested(candidates, k, c) ==
    IF k > Len(candidates) THEN c
    ELSE LET nestedPipe  == candidates[k]
             nestedCount == NestedCount(c.remaining[nestedPipe.id],
                                        c.largePipesInThis)
         IN  IF nestedCount > 0
             THEN WithNested(candidates, k + 1,
                    [c EXCEPT
                       !.pipes = Append(@,
                           [diameterMm |-> nestedPipe.externalDiameterMm,
                            count      |-> nestedCount,
                            weight     |-> EntryWeight(nestedPipe, nestedCount),
                            nested     |-> TRUE]),
                       !.containerWeight = @ + EntryWeight(nestedPipe, nestedCount),
                       !.totalPipesInContainer = @ + nestedCount,
                       !.remaining[nestedPipe.id] = @ - nestedCount])
             ELSE WithNested(candidates, k + 1, c)

\* How many pipes of a smaller type the code counts beside and above the
\* large pipes of the container, or in a container with no large pipe.
standaloneCapacity(smallPipe, largestPipe, largePipesInThis, v) ==
    LET width  == OrZero(v, "width") * 10
        height == OrZero(v, "height") * 10
        length == OrZero(v, "length") * 10
        smallDiameter == smallPipe.externalDiameterMm
    IN  IF largePipesInThis > 0
        THEN LET usedRows == CeilDiv(largePipesInThis, OrOne(largestPipe.pipesPerRow))
                 usedHeightByLarge == usedRows * largestPipe.externalDiameterMm
                 usedWidthByLarge ==
                     Min(largePipesInThis, OrOne(largestPipe.pipesPerRow))
                         * largestPipe.externalDiameterMm
                 remainingWidthOnSide == width - usedWidthByLarge
                 remainingHeightOnTop == height - usedHeightByLarge
                 sideColumns == remainingWidthOnSide \div smallDiameter
                 sideRows    == height \div smallDiameter
                 sideCapacity == Max(0, sideColumns * sideRows)
                 topColumns == usedWidthByLarge \div smallDiameter
                 topRows    == remainingHeightOnTop \div smallDiameter
                 topCapacity == Max(0, topColumns * topRows)
             IN  (sideCapacity + topCapacity) * OrOne(largestPipe.pipesAlongLength)
        ELSE (width \div smallDiameter) * (height \div smallDiameter)
                 * (length \div (IF smallPipe.standardLengthMm = 0 THEN 10
                                 ELSE smallPipe.standardLengthMm))

\* containerPipes.find(p => p.diameterMm === d && !p.nested): the index of
\* the first such entry, 0 when there is none.
existingEntry(pipes, d) ==
    LET found == { k \in 1..Len(pipes) : pipes[k].diameterMm = d /\ ~pipes[k].nested }
    IN  IF found = {} THEN 0 ELSE CHOOSE k \in found : \A m \in found : k <= m

\* for (const smallPipe of sortedPipes.slice(1)), from pipe k of the slice on.
RECURSIVE WithStandalone(_, _, _, _, _)
WithStandalone(smaller, k, c, largestPipe, v) ==
    IF k > Len(smaller) THEN c
    ELSE LET smallPipe == smaller[k]
             remainingSmall == c.remaining[smallPipe.id]
         IN  IF remainingSmall <= 0
             THEN WithStandalone(smaller, k + 1, c, largestPipe, v)
             ELSE
             LET standaloneCount ==
                     Min(remainingSmall,
                         standaloneCapacity(smallPipe, largestPipe,
                                            c.largePipesInThis, v))
                 standaloneWeight == EntryWeight(smallPipe, standaloneCount)
                 existing == existingEntry(c.pipes, smallPipe.externalDiameterMm)
             IN  IF standaloneCount > 0
                 THEN WithStandalone(smaller, k + 1,
                        [c EXCEPT
                           !.pipes =
                               IF existing # 0
                               THEN [@ EXCEPT
                                       ![existing].count = @ + standaloneCount,
                                       ![existing].weight = @ + standaloneWeight]
                               ELSE Append(@,
                                      [diameterMm |-> smallPipe.externalDiameterMm,
                                       count      |-> standaloneCount,
                                       weight     |-> standaloneWeight,
                                       nested     |-> FALSE,
                                       standalone |-> TRUE]),
                           !.containerWeight = @ + standaloneWeight,
                           !.totalPipesInContainer = @ + standaloneCount,
                           !.remaining[smallPipe.id] = @ - standaloneCount],
                        largestPipe, v)
                 ELSE WithStandalone(smaller, k + 1, c, largestPipe, v)

\* One pass of the loop over the containers: what the body leaves.
ContainerBody(sorted, rem, v) ==
    WithStandalone(Tail(sorted), 1,
                   WithNested(nestingCandidates(sorted), 1,
                              WithLarge(sorted[1], rem)),
                   sorted[1], v)

\* The catalogue of the table's model: pipes with a wall thickness.
TablePipe(id, ext, wall, std, qty, wpm) ==
    [id |-> id, externalDiameter |-> ext, wallThickness |-> wall,
     standardLength |-> std, quantityInMeters |-> qty, weightPerMeter |-> wpm]

\* The order lines (mm, m, kg/m): 100 pipes of 500 mm with a bore of 460 mm
\* (6000 kg); 10 pipes of 450 mm, which go into that bore with nothing to
\* spare beyond 10 mm; 100 pipes of 200 mm; 30 pipes of 480 mm, too wide
\* for the bore; a line with no quantity; a pipe 13 m long, longer than the
\* container.  Every line has a diameter: the table divides by it.
TableCatalogue ==
    { TablePipe(1, 500, 20,  6000, 600, 10),
      TablePipe(2, 450, 10,  6000,  60,  5),
      TablePipe(3, 200, 10,  6000, 600,  5),
      TablePipe(4, 480, 20,  6000, 180, 10),
      TablePipe(5, 300, 10,  6000,   0,  5),
      TablePipe(6, 200, 10, 13000,  13,  5) }

MaxTablePipes == 2

TableArrays == { a \in ArraysOf(TableCatalogue, MaxTablePipes) : HasDistinctIds(a) }

\* The containers (cm, kg): 1200 x 235 x 239 with no weight limit and with
\* limits of 1500 and 26000 kg, and a container of no width.
TableVolumes ==
    { [length |-> 1200, width |-> 235, height |-> 239, weightCapacity |-> cap] :
          cap \in {0, 1500, 26000} }
    \cup { [length |-> 1200, width |-> 0, height |-> 239, weightCapacity |-> 0] }

\* config.allowance, mm.
TableAllowances == {0, 20}

\* A caller holds an order, a container and a configuration; nothing is
\* calculated or rendered yet.
InitTable ==
    /\ volume \in TableVolumes
    /\ pipeTypes \in TableArrays
    /\ minSpace = 0
    /\ allowance \in TableAllowances
    /\ pc = "aggregator"
    /\ pipeTemplates = <<>>
    /\ placedCircles = <<>>
    /\ arrangement = NewArrangement
    /\ placedAny = TRUE
    /\ iterations = 0
    /\ next = 1
    /\ run = 1
    /\ firstRun = <<>>
    /\ results = <<>>
    /\ nesting = <<>>
    /\ possibilities = <<>>
    /\ floor = NoFloor
    /\ NoTable /\ NoStore

\* const totalContainers = volumesNeeded.total || 1
totalContainers == OrOne(results[1].volumesNeeded.total)

engine == <<pipeTemplates, placedCircles, arrangement, placedAny, iterations,
            next, run, firstRun, nesting, possibilities, floor>>

\* The table is rendered with the results: the memo returns an empty
\* breakdown at once (no pipe results, no type with demand), or sets up the
\* remaining demand and enters its loop.
Render ==
    /\ pc = "aggregator"
    /\ results # <<>>
    /\ LET pipeResults == results[1].pipeResults
           sorted == sortedPipes(pipeResults)
       IN  IF Len(pipeResults) = 0 \/ Len(sorted) = 0
           THEN /\ pc' = "table"
                /\ UNCHANGED <<containers, remainingPipes, index>>
           ELSE /\ pc' = "breakdown"
                /\ containers' = <<>>
                /\ remainingPipes' = InitialRemaining(sorted)
                /\ index' = 0
    /\ UNCHANGED <<inputs, engine, results, store>>

\* for (let i = 0; i < totalContainers; i++): one container is filled and
\* pushed.
FillContainer ==
    /\ pc = "breakdown"
    /\ index < totalContainers
    /\ index < MaxContainers
    /\ LET c == ContainerBody(sortedPipes(results[1].pipeResults),
                              remainingPipes, volume)
       IN  /\ containers' = Append(containers,
                                   [containerNumber |-> index + 1,
                                    pipes           |-> c.pipes,
                                    totalPipes      |-> c.totalPipesInContainer,
                                    totalWeight     |-> c.containerWeight])
           /\ remainingPipes' = c.remaining
    /\ index' = index + 1
    /\ UNCHANGED <<inputs, engine, results, pc, store>>

\* The loop is over: the memo returns the containers.
BreakdownReturn ==
    /\ pc = "breakdown"
    /\ ~(index < totalContainers)
    /\ pc' = "table"
    /\ UNCHANGED <<inputs, engine, results, table, store>>

NextTable ==
    \/ Calculate
    \/ Render
    \/ FillContainer
    \/ BreakdownReturn

SpecTable == InitTable /\ [][NextTable]_vars

\* --------------------------------------------------- the calculator store
\* CalculatorContext: the reducer, the validation effect and calculate().
\* null is <<>> and a non-null results or arrangement is a one-element
\* sequence; the errors object is the set of its keys.  The lengths of the
\* cross-section plane are thousandths, as for the engine.

\* The bounds of the model: how many pipes and boxes the store holds, how
\* many ids are handed out and how many calculate() calls wait at once.
MaxStorePipes == 1

MaxStoreBoxes == 1

MaxIds == 2

MaxCalls == 2

DEFAULT_CONFIG == [minSpace |-> 0, allowance |-> 0]

DEFAULT_VOLUME ==
    [transportationType |-> "custom", length |-> 0, width |-> 0, height |-> 0,
     weightCapacity |-> 0]

initialState ==
    [volume        |-> DEFAULT_VOLUME,
     pipes         |-> <<>>,
     boxes         |-> <<>>,
     config        |-> DEFAULT_CONFIG,
     results       |-> <<>>,
     arrangement   |-> <<>>,
     errors        |-> {},
     isValid       |-> FALSE,
     isCalculating |-> FALSE]

\* The pipe ADD_PIPE appends; the id is made from the clock and a random
\* number in the code and is an input here.
newPipe(id) ==
    [id |-> id, externalDiameter |-> 0, internalDiameter |-> 0,
     standardLength |-> 0, quantityInMeters |-> 0, wallThickness |-> 0,
     weightPerMeter |-> 0, length |-> 0, telescopedWith |-> <<>>,
     telescopingType |-> "none", effectiveDiameter |-> 0, effectiveLength |-> 0]

\* The box ADD_BOX appends.
newBox(id) == [id |-> id, length |-> 0, width |-> 0, height |-> 0]

\* items.map(item => item.id === id ? { ...item, ...updates } : item)
UpdateById(items, id, updates) ==
    [k \in 1..Len(items) |->
        IF items[k].id = id THEN Spread(items[k], updates) ELSE items[k]]

\* The state with the results kept across a change of the inputs.
ResultsKept(s) == s

\* results: null, arrangement: null
Invalidated(s) == [s EXCEPT !.results = <<>>, !.arrangement = <<>>]

calculatorReducer(s, type, payload) ==
    CASE type = "UPDATE_VOLUME" ->
             Invalidated([s EXCEPT !.volume = Spread(@, payload)])
      [] type = "ADD_PIPE" ->
             Invalidated([s EXCEPT !.pipes = Append(@, newPipe(payload))])
      [] type = "UPDATE_PIPE" ->
             Invalidated([s EXCEPT
                 !.pipes = UpdateById(@, payload.id, payload.updates)])
      [] type = "REMOVE_PIPE" ->
             Invalidated([s EXCEPT
                 !.pipes = SelectSeq(@, LAMBDA pipe : pipe.id # payload.id)])
      [] type = "ADD_BOX" ->
             Invalidated([s EXCEPT !.boxes = Append(@, newBox(payload))])
      [] type = "UPDATE_BOX" ->
             Invalidated([s EXCEPT
                 !.boxes = UpdateById(@, payload.id, payload.updates)])
      [] type = "REMOVE_BOX" ->
             Invalidated([s EXCEPT
                 !.boxes = SelectSeq(@, LAMBDA box : box.id # payload.id)])
      [] type = "UPDATE_CONFIG" ->
             Invalidated([s EXCEPT !.config = Spread(@, payload)])
      [] type = "CALCULATE" ->
             [s EXCEPT !.results = payload.results,
                       !.arrangement = payload.arrangement]
      [] type = "CLEAR_RESULTS" ->
             Invalidated(s)
      [] type = "SET_ERRORS" ->
             [s EXCEPT !.errors = payload, !.isValid = (payload = {})]
      [] type = "SET_CALCULATING" ->
             [s EXCEPT !.isCalculating = payload]
      [] type = "RESET" ->
             [initialState EXCEPT !.config = DEFAULT_CONFIG]
      [] OTHER -> s

\* !v.f || v.f <= 0
NotPositive(v, f) == IF f \in DOMAIN v THEN v[f] <= 0 ELSE TRUE

\* The largest external diameter of the pipes (0 for a pipe without one).
RECURSIVE MaxDiameter(_)
MaxDiameter(pipes) ==
    IF pipes = <<>> THEN 0
    ELSE Max(OrZero(Head(pipes), "externalDiameter"), MaxDiameter(Tail(pipes)))

\* errors[key] = ... under a condition.
KeyIf(key, condition) == IF condition THEN {key} ELSE {}

\* The keys set for the items (pipes or boxes) whose field f is not positive.
ItemKeys(items, prefix, f, suffix) ==
    { prefix \o ToString(k - 1) \o suffix :
          k \in { m \in 1..Len(items) : NotPositive(items[m], f) } }

\* validateInputs: the keys of the errors object.
validateInputs(v, pipes, boxes, config) ==
    KeyIf("volumeLength", NotPositive(v, "length"))
    \cup KeyIf("volumeWidth", NotPositive(v, "width"))
    \cup KeyIf("volumeHeight", NotPositive(v, "height"))
    \cup KeyIf("volumeWeightCapacity",
               "weightCapacity" \in DOMAIN v /\ v.weightCapacity < 0)
    \cup KeyIf("pipes", Len(pipes) = 0)
    \cup ItemKeys(pipes, "pipe", "externalDiameter", "ExternalDiameter")
    \cup ItemKeys(pipes, "pipe", "internalDiameter", "InternalDiameter")
    \cup { "pipe" \o ToString(k - 1) \o "Diameter" :
               k \in { m \in 1..Len(pipes) :
                         /\ ~Falsy(pipes[m], "externalDiameter")
                         /\ ~Falsy(pipes[m], "internalDiameter")
                         /\ pipes[m].externalDiameter <= pipes[m].internalDiameter } }
    \cup ItemKeys(pipes, "pipe", "standardLength", "StandardLength")
    \cup ItemKeys(pipes, "pipe", "quantityInMeters", "QuantityInMeters")
    \cup ItemKeys(pipes, "pipe", "weightPerMeter", "WeightPerMeter")
    \cup ItemKeys(boxes, "box", "length", "Length")
    \cup ItemKeys(boxes, "box", "width", "Width")
    \cup ItemKeys(boxes, "box", "height", "Height")
    \cup KeyIf("minSpace", OrZero(config, "minSpace") < 0)
    \cup KeyIf("allowance", OrZero(config, "allowance") < 0)
    \cup KeyIf("volumeHeight",
               Len(pipes) > 0 /\ ~Falsy(v, "height")
                   /\ MaxDiameter(pipes) > 10 * v.height)

\* The effect that validates after the inputs changed:
\* dispatch SET_ERRORS with validateInputs of the new state.
AutoValidated(s) ==
    calculatorReducer(s, "SET_ERRORS",
                      validateInputs(s.volume, s.pipes, s.boxes, s.config))

\* The finally block left out.
FinallySkipped(s) == s

\* finally { dispatch({ type: SET_CALCULATING, payload: false }) }
Finally(s) == calculatorReducer(s, "SET_CALCULATING", FALSE)

\* What a calculate() call closes over.
Closure(s) ==
    [volume |-> s.volume, pipes |-> s.pipes, boxes |-> s.boxes, config |-> s.config]

\* The payloads the user interface dispatches (plane lengths in
\* thousandths): a valid volume; a pipe's dimensions (the
\* fields the form has) and, apart, the legacy length the engine reads; a
\* box's dimensions; a spacing.
VolumeUpdates == { [length |-> 250, width |-> 1000, height |-> 1000] }

PipeUpdates ==
    { [externalDiameter |-> 1000, internalDiameter |-> 800, wallThickness |-> 100,
       standardLength |-> 1000, quantityInMeters |-> 5, weightPerMeter |-> 30],
      [length |-> 100] }

BoxUpdates == { [length |-> 10, width |-> 10, height |-> 10] }

ConfigUpdates == { [minSpace |-> 400] }

\* The provider is mounted: the initial state, validated by the effect; no
\* call is waiting and the engine is not running.
InitStore ==
    /\ state = AutoValidated(initialState)
    /\ calls = <<>>
    /\ nextId = 0
    /\ computedFrom = <<>>
    /\ pc = "idle"
    /\ volume = <<>>
    /\ pipeTypes = <<>>
    /\ minSpace = 0
    /\ allowance = 0
    /\ pipeTemplates = <<>>
    /\ placedCircles = <<>>
    /\ arrangement = NewArrangement
    /\ placedAny = TRUE
    /\ iterations = 0
    /\ next = 1
    /\ run = 1
    /\ firstRun = <<>>
    /\ results = <<>>
    /\ nesting = <<>>
    /\ possibilities = <<>>
    /\ floor = NoFloor
    /\ NoTable

\* What a dispatch from the user interface leaves alone.
aside == <<inputs, engine, results, pc, table, calls>>

\* The history goes with the results.
History == computedFrom' = IF state'.results = <<>> THEN <<>> ELSE computedFrom

updateVolume ==
    /\ pc = "idle"
    /\ \E payload \in VolumeUpdates :
           state' = AutoValidated(calculatorReducer(state, "UPDATE_VOLUME", payload))
    /\ History
    /\ UNCHANGED <<aside, nextId>>

addPipe ==
    /\ pc = "idle"
    /\ Len(state.pipes) < MaxStorePipes
    /\ nextId < MaxIds
    /\ nextId' = nextId + 1
    /\ state' = AutoValidated(calculatorReducer(state, "ADD_PIPE", nextId'))
    /\ History
    /\ UNCHANGED aside

updatePipe ==
    /\ pc = "idle"
    /\ \E k \in 1..Len(state.pipes), updates \in PipeUpdates :
           state' = AutoValidated(calculatorReducer(state, "UPDATE_PIPE",
                        [id |-> state.pipes[k].id, updates |-> updates]))
    /\ History
    /\ UNCHANGED <<aside, nextId>>

removePipe ==
    /\ pc = "idle"
    /\ \E k \in 1..Len(state.pipes) :
           state' = AutoValidated(calculatorReducer(state, "REMOVE_PIPE",
                        [id |-> state.pipes[k].id]))
    /\ History
    /\ UNCHANGED <<aside, nextId>>

addBox ==
    /\ pc = "idle"
    /\ Len(state.boxes) < MaxStoreBoxes
    /\ nextId < MaxIds
    /\ nextId' = nextId + 1
    /\ state' = AutoValidated(calculatorReducer(state, "ADD_BOX", nextId'))
    /\ History
    /\ UNCHANGED aside

updateBox ==
    /\ pc = "idle"
    /\ \E k \in 1..Len(state.boxes), updates \in BoxUpdates :
           state' = AutoValidated(calculatorReducer(state, "UPDATE_BOX",
                        [id |-> state.boxes[k].id, updates |-> updates]))
    /\ History
    /\ UNCHANGED <<aside, nextId>>

removeBox ==
    /\ pc = "idle"
    /\ \E k \in 1..Len(state.boxes) :
           state' = AutoValidated(calculatorReducer(state, "REMOVE_BOX",
                        [id |-> state.boxes[k].id]))
    /\ History
    /\ UNCHANGED <<aside, nextId>>

updateConfig ==
    /\ pc = "idle"
    /\ \E payload \in ConfigUpdates :
           state' = AutoValidated(calculatorReducer(state, "UPDATE_CONFIG", payload))
    /\ History
    /\ UNCHANGED <<aside, nextId>>

clearResults ==
    /\ pc = "idle"
    /\ state' = calculatorReducer(state, "CLEAR_RESULTS", <<>>)
    /\ History
    /\ UNCHANGED <<aside, nextId>>

reset ==
    /\ pc = "idle"
    /\ state' = AutoValidated(calculatorReducer(state, "RESET", <<>>))
    /\ History
    /\ UNCHANGED <<aside, nextId>>

\* calculate() when validate() fails: SET_ERRORS is dispatched and the call
\* returns false.
CalculateInvalid ==
    /\ pc = "idle"
    /\ validateInputs(state.volume, state.pipes, state.boxes, state.config) # {}
    /\ state' = AutoValidated(state)
    /\ History
    /\ UNCHANGED <<aside, nextId>>

\* calculate() when validate() passes, up to the await: SET_ERRORS and
\* SET_CALCULATING true are dispatched and the call waits for its timer with
\* the state it closed over.
CalculateStart ==
    /\ pc = "idle"
    /\ Len(calls) < MaxCalls
    /\ validateInputs(state.volume, state.pipes, state.boxes, state.config) = {}
    /\ state' = calculatorReducer(AutoValidated(state), "SET_CALCULATING", TRUE)
    /\ calls' = Append(calls,
           Spread(Closure(state),
                  [tag |-> CHOOSE t \in 1..MaxCalls :
                               /\ \A k \in 1..Len(calls) : calls[k].tag # t
                               /\ \A u \in 1..t - 1 :
                                      \E k \in 1..Len(calls) : calls[k].tag = u,
                   at  |-> "await"]))
    /\ History
    /\ UNCHANGED <<inputs, engine, results, pc, table, nextId>>

\* The timer of the oldest waiting call fires: the call goes on with the
\* volume, pipes and config it closed over.
Resume ==
    /\ pc = "idle"
    /\ calls # <<>>
    /\ calls[1].at = "await"
    /\ calls' = [calls EXCEPT ![1].at = "running"]
    /\ volume' = calls[1].volume
    /\ pipeTypes' = calls[1].pipes
    /\ minSpace' = calls[1].config.minSpace
    /\ allowance' = calls[1].config.allowance
    /\ pc' = "start"
    /\ UNCHANGED <<engine, results, table, state, nextId, computedFrom>>

\* The locals of the call are gone.
CallOver ==
    /\ calls' = Tail(calls)
    /\ pc' = "idle"
    /\ volume' = <<>>
    /\ pipeTypes' = <<>>
    /\ minSpace' = 0
    /\ allowance' = 0
    /\ pipeTemplates' = <<>>
    /\ placedCircles' = <<>>
    /\ arrangement' = NewArrangement
    /\ placedAny' = TRUE
    /\ iterations' = 0
    /\ next' = 1
    /\ nesting' = <<>>
    /\ UNCHANGED <<run, firstRun, possibilities, floor, results, table, nextId>>

\* optimizeArrangement has returned: calculateResults, the CALCULATE
\* dispatch and the finally block.
Dispatch ==
    /\ pc = "done"
    /\ state' = Finally(calculatorReducer(state, "CALCULATE",
                    [results     |-> <<calculateResults(pipeTypes, volume)>>,
                     arrangement |-> <<arrangement>>]))
    /\ computedFrom' = << [volume |-> calls[1].volume, pipes |-> calls[1].pipes,
                           boxes |-> calls[1].boxes, config |-> calls[1].config] >>
    /\ CallOver

\* optimizeArrangement or calculateResults throws: the catch and the finally
\* block.
Throw ==
    /\ pc = "start"
    /\ state' = Finally(state)
    /\ History
    /\ CallOver

NextStore ==
    \/ updateVolume
    \/ addPipe
    \/ updatePipe
    \/ removePipe
    \/ addBox
    \/ updateBox
    \/ removeBox
    \/ updateConfig
    \/ clearResults
    \/ reset
    \/ CalculateInvalid
    \/ CalculateStart
    \/ Resume
    \/ RejectPipes
    \/ Arrange
    \/ RoundStart
    \/ LoopExit
    \/ PlaceCircle
    \/ NoPosition
    \/ RoundEnd
    \/ Dispatch
    \/ Throw

SpecStore == InitStore /\ [][NextStore]_vars

\* What a calculate() call does once it waits: its timer fires (setTimeout
\* of 500 ms) and the rest of the function runs to its end without
\* interruption.
Continue ==
    \/ Resume
    \/ RejectPipes
    \/ Arrange
    \/ RoundStart
    \/ LoopExit
    \/ PlaceCircle
    \/ NoPosition
    \/ RoundEnd
    \/ Dispatch
    \/ Throw

\* The store with timers that fire and code that runs on.
SpecStoreFair == SpecStore /\ WF_vars(Continue)

\* ------------------------------------------------------------- properties

\* The run is inside or past arrangePipesInCrossSection: arrangement is the
\* object it builds, not an error result.
Arranging == "totalWeight" \in DOMAIN arrangement

\* C1 (non-overlap): in every state of the placement loop and after it, the
\* centers of any two distinct placed circles are at least the sum of their
\* effective radii minus the 0.001 tolerance apart.
NonOverlap ==
    \A i, j \in 1..Len(placedCircles) :
        i < j =>
            LET a  == placedCircles[i]
                b  == placedCircles[j]
                m  == a.effectiveRadius + b.effectiveRadius - Tolerance
                dx == b.x - a.x
                dy == b.y - a.y
            IN  m <= 0 \/ dx * dx + dy * dy >= m * m

\* Three or more circles are placed and two of them touch: their centers are
\* exactly the sum of their effective radii apart.
NonOverlapWitness ==
    /\ Len(placedCircles) >= 3
    /\ \E i, j \in 1..Len(placedCircles) :
           /\ i < j
           /\ LET a == placedCircles[i]
                  b == placedCircles[j]
                  m == a.effectiveRadius + b.effectiveRadius
              IN  (b.x - a.x) * (b.x - a.x) + (b.y - a.y) * (b.y - a.y) = m * m

\* The templates whose diameter exceeds min(width, height).
Oversized ==
    { k \in 1..Len(pipeTemplates) :
        pipeTemplates[k].diameter > Min(volume.width, volume.height) }

\* C2 (in-bounds): every placed circle, the first included, lies inside the
\* rectangle with its effective radius; a template whose diameter exceeds
\* min(width, height) is never placed and none of its pipes is counted.
PlacedInBounds ==
    /\ \A i \in 1..Len(placedCircles) :
           LET c == placedCircles[i]
               r == c.effectiveRadius
           IN  /\ c.x - r >= 0
               /\ c.x + r <= volume.width
               /\ c.y - r >= 0
               /\ c.y + r <= volume.height
    /\ \A k \in Oversized :
           /\ \A i \in 1..Len(placedCircles) : placedCircles[i].item # k
           /\ \A n \in 1..Len(pipeTemplates[k].pipes) :
                  pipeTemplates[k].pipes[n].id \notin DOMAIN arrangement.pipeCounts

\* A finished run that had an oversized template first in its list and still
\* placed two or more circles of another template.
PlacedInBoundsWitness ==
    /\ pc = "done"
    /\ 1 \in Oversized
    /\ Len(placedCircles) >= 2

\* The weight of the first i circles placed, summed over their templates.
RECURSIVE PlacedWeight(_)
PlacedWeight(i) ==
    IF i = 0 THEN 0
    ELSE pipeTemplates[placedCircles[i].item].weight + PlacedWeight(i - 1)

\* C3 (weight limit): with a weight capacity above 0, in every state of the
\* placement loop the cumulative totalWeight is the weight of the circles
\* placed and is at most the capacity.
WeightWithinCapacity ==
    (Arranging /\ ~Falsy(volume, "weightCapacity")) =>
        /\ arrangement.totalWeight = PlacedWeight(Len(placedCircles))
        /\ arrangement.totalWeight <= volume.weightCapacity * 100

\* A placement was refused on weight grounds after circles had been placed
\* up to within one circle of the capacity.
WeightWithinCapacityWitness ==
    /\ Arranging
    /\ ~Falsy(volume, "weightCapacity")
    /\ arrangement.weightCapacityExceeded
    /\ Len(placedCircles) >= 2
    /\ \E k \in 1..Len(pipeTemplates) :
           arrangement.totalWeight + pipeTemplates[k].weight
               > volume.weightCapacity * 100

\* The chain of a group: the outer pipe, then the nested pipes in the order
\* in which they were accepted.
Chain(group) == <<group.outerPipe>> \o group.nestedPipes

\* C4 (nesting validity): in every group createNestedGroups returns, each
\* nested pipe's external diameter is at most the internal diameter, less
\* twice the allowance, of the pipe accepted before it (the outer pipe for
\* the first); an outer pipe whose internal diameter less twice the allowance
\* is not positive hosts no pipe of positive external diameter.
NestingValid ==
    nesting # <<>> =>
        \A g \in 1..Len(nesting[1].nestedGroups) :
            LET group == nesting[1].nestedGroups[g]
                chain == Chain(group)
            IN  /\ \A n \in 1..Len(chain) - 1 :
                       chain[n + 1].externalDiameter
                           <= chain[n].internalDiameter - 2 * allowance
                /\ group.outerPipe.internalDiameter - 2 * allowance <= 0 =>
                       \A n \in 1..Len(group.nestedPipes) :
                           group.nestedPipes[n].externalDiameter <= 0

\* createNestedGroups returned a group nested two levels deep, with a
\* positive allowance, from pipes one of which has no room inside.
NestingValidWitness ==
    /\ nesting # <<>>
    /\ allowance > 0
    /\ \E g \in 1..Len(nesting[1].nestedGroups) :
           Len(nesting[1].nestedGroups[g].nestedPipes) >= 2
    /\ \E n \in 1..Len(pipeTypes) :
           /\ pipeTypes[n].externalDiameter > 0
           /\ pipeTypes[n].internalDiameter - 2 * allowance <= 0

\* The longest of the pipes of a list (0 for none).
RECURSIVE LongestOf(_)
LongestOf(pipes) ==
    IF pipes = <<>> THEN 0 ELSE Max(Head(pipes).length, LongestOf(Tail(pipes)))

\* The entry findTelescopingPossibilities returned for the pipe of an id.
Possibility(id) ==
    LET ps == possibilities[1].pipes
    IN  ps[CHOOSE n \in 1..Len(ps) : ps[n].id = id]

\* The dimension law for one outer pipe with the pipes nested in it: the
\* effective diameter is the outer pipe's, and the effective length is the
\* outer pipe's if no nested pipe is longer (full) and the longest length
\* otherwise (partial).
DimensionLaw(outer, nested, effectiveDiameter, effectiveLength) ==
    /\ effectiveDiameter = outer.externalDiameter
    /\ effectiveLength = Max(outer.length, LongestOf(nested))

\* C5 (telescoping dimension law): every outer pipe of
\* findTelescopingPossibilities and every group of createNestedGroups obeys
\* the dimension law, for pipes whose external diameter exceeds the internal
\* one; outer D20/L200 with inner D15/L150 gives 20 and 200, with inner
\* D15/L300 it gives 20 and 300.
TelescopingDimensionLaw ==
    (\A n \in 1..Len(pipeTypes) :
         pipeTypes[n].externalDiameter > pipeTypes[n].internalDiameter) =>
    /\ possibilities # <<>> =>
           \A n \in 1..Len(possibilities[1].pipes) :
               LET p == possibilities[1].pipes[n]
               IN  (p.telescopingType \in {"full", "partial"}) =>
                       DimensionLaw(p,
                           [k \in 1..Len(p.telescopedWith) |->
                               Possibility(p.telescopedWith[k])],
                           p.effectiveDiameter, p.effectiveLength)
    /\ nesting # <<>> =>
           \A g \in 1..Len(nesting[1].nestedGroups) :
               LET group == nesting[1].nestedGroups[g]
               IN  DimensionLaw(group.outerPipe, group.nestedPipes,
                                group.effectiveDiameter, group.effectiveLength)

FloorLoopAdvances ==
    [][(pc = "floor" /\ pc' = "floor") => floor'.x > floor.x]_vars

\* A finished run of arrangePipesInCrossSection with one template.
DoneWithOneTemplate == pc = "done" /\ Arranging /\ Len(pipeTemplates) = 1

\* floor(C / w) for the capacity C of the volume (kg) and a template weight w
\* (hundredths of a kg).
WeightLimitedCount(w) == (volume.weightCapacity * 100) \div w

\* C8 (weight-limited count): with one template of weight w > 0 and a
\* capacity C > 0, the engine never places more than floor(C / w) circles;
\* when the rectangle still has a position for one more circle at the end,
\* it has placed exactly floor(C / w), weightCapacityExceeded is set, and it
\* stopped after the round of the refusal (round floor(C / w) + 1).
WeightLimitedStop ==
    (/\ DoneWithOneTemplate
     /\ ~Falsy(volume, "weightCapacity")
     /\ pipeTemplates[1].weight > 0) =>
        LET n == WeightLimitedCount(pipeTemplates[1].weight)
        IN  /\ Len(placedCircles) <= n
            /\ PositionFor(pipeTemplates[1]) # <<>> =>
                   /\ Len(placedCircles) = n
                   /\ arrangement.totalPipes = n * Len(pipeTemplates[1].pipes)
                   /\ arrangement.totalWeight = n * pipeTemplates[1].weight
                   /\ arrangement.weightCapacityExceeded
                   /\ iterations = n + 1

\* Capacity 100 kg and one template of 30 kg: the run ended with 3 circles
\* (90 kg), the flag set in round 4, and room left for a 4th circle.
WeightLimitedStopWitness ==
    /\ DoneWithOneTemplate
    /\ OrZero(volume, "weightCapacity") = 100
    /\ pipeTemplates[1].weight = 3000
    /\ Len(placedCircles) = 3
    /\ arrangement.totalWeight = 9000
    /\ arrangement.weightCapacityExceeded
    /\ iterations = 4
    /\ PositionFor(pipeTemplates[1]) # <<>>

\* C9 (grid lower bound): with one standalone template of diameter d,
\* spacing 0 and no weight limit, the engine places at least
\* floor(width / d) * floor(height / d) circles.
GridLowerBound ==
    (/\ DoneWithOneTemplate
     /\ pipeTemplates[1].type = "standalone"
     /\ minSpace = 0
     /\ Falsy(volume, "weightCapacity")) =>
        Len(placedCircles) >=
            (volume.width \div pipeTemplates[1].diameter)
                * (volume.height \div pipeTemplates[1].diameter)

\* C10 (zero or absent weightCapacity is unlimited): with weightCapacity 0
\* or absent, the engine never sets weightCapacityExceeded (a refusal sets it
\* at once), and the aggregator reports byWeight = 0, a limiting factor that
\* is neither "weight" nor "both", and a total that is the packing count (1
\* when the packing count is 0 and the container is valid).
NoCapacityIsUnlimited ==
    Falsy(volume, "weightCapacity") =>
        /\ Arranging => ~arrangement.weightCapacityExceeded
        /\ Arranging => arrangement.totalWeight = PlacedWeight(Len(placedCircles))
        /\ results # <<>> =>
               LET vn == results[1].volumesNeeded
               IN  /\ vn.byWeight = 0
                   /\ vn.limitingFactor \in {"packing", "none"}
                   /\ \/ vn.total = vn.byPacking
                      \/ vn.byPacking = 0 /\ vn.total = 1

\* A volume with no weightCapacity field: the engine placed circles weighing
\* more than 100 kg together, and the aggregator was given an order with
\* weight.
NoCapacityIsUnlimitedWitness ==
    /\ "weightCapacity" \notin DOMAIN volume
    /\ pc = "done"
    /\ Arranging
    /\ arrangement.totalWeight > 10000
    /\ results # <<>>
    /\ results[1].totalWeight > 0
    /\ results[1].volumesNeeded.total >= 1

\* C11 (invalid rectangle): optimizeArrangement called with a volume whose
\* width or height is 0, missing or negative returns a result with no placed
\* circle and a failure reason in its error field.
InvalidRectangleRejected ==
    (/\ pc = "done"
     /\ \/ OrZero(volume, "width") <= 0
        \/ OrZero(volume, "height") <= 0) =>
        /\ "error" \in DOMAIN arrangement
        /\ arrangement.layers = <<>>
        /\ arrangement.pipeCounts = <<>>

\* The pipe result has demand and no capacity in the container.
Infeasible(p) == p.numberOfPipes > 0 /\ p.pipesPerContainer = 0

\* C12 (infeasibility is explicit): when some pipe type with numberOfPipes > 0
\* has pipesPerContainer = 0, calculateVolumesNeededByPacking returns
\* total = Infinity, byPacking = Infinity, limitingFactor "packing" and an
\* error field, whatever the order of the pipe types, the other pipe types
\* and the weights.
InfeasibilityExplicit ==
    results # <<>> =>
        LET r  == results[1].pipeResults
            vn == results[1].volumesNeeded
        IN  (\E i \in 1..Len(r) : Infeasible(r[i])) =>
                /\ vn.total = Infinity
                /\ vn.byPacking = Infinity
                /\ vn.limitingFactor = "packing"
                /\ "error" \in DOMAIN vn

\* The container has a positive volume.
PositiveVolume(v) ==
    /\ OrZero(v, "width") > 0
    /\ OrZero(v, "height") > 0
    /\ OrZero(v, "length") > 0

\* The largest member of a non-empty set of integers.
Largest(S) == CHOOSE m \in S : \A x \in S : x <= m

\* The packing count of feasible pipe results: the largest
\* ceil(numberOfPipes / pipesPerContainer) over the pipe types with demand,
\* 0 when there is none.
PackingCount(r) ==
    Largest({0} \cup { CeilDiv(r[i].numberOfPipes, r[i].pipesPerContainer) :
                           i \in { j \in 1..Len(r) : r[j].numberOfPipes > 0 } })

\* The total, the two counts and their consequences, as the result vn
\* reports them for pipe results r of weight w and a weight capacity cap.
TotalLaw(vn, r, w, cap) ==
    /\ vn.byPacking = PackingCount(r)
    /\ vn.byWeight = (IF cap > 0 THEN CeilDiv(w, cap) ELSE 0)
    /\ vn.total = Max(Max(vn.byPacking, vn.byWeight), 1)
    /\ vn.total >= 1
    /\ vn.total >= vn.byPacking

LimitingFactorLaw ==
    results # <<>> =>
        LET vn == results[1].volumesNeeded
        IN  "error" \notin DOMAIN vn =>
                /\ vn.limitingFactor = "packing" <=> vn.byPacking > vn.byWeight
                /\ vn.limitingFactor = "weight" <=> vn.byWeight > vn.byPacking
                /\ vn.limitingFactor = "both" <=>
                       (vn.byPacking = vn.byWeight /\ vn.byPacking > 0)
                /\ vn.limitingFactor = "none" <=>
                       (vn.byPacking = 0 /\ vn.byWeight = 0)

\* An order with demand whose packing count and weight count are equal:
\* the result names both.
LimitingFactorLawWitness ==
    /\ pc = "aggregator"
    /\ results # <<>>
    /\ results[1].totalPipes > 0
    /\ "error" \notin DOMAIN results[1].volumesNeeded
    /\ results[1].volumesNeeded.byPacking = results[1].volumesNeeded.byWeight
    /\ results[1].volumesNeeded.byPacking > 0
    /\ results[1].volumesNeeded.limitingFactor = "both"

\* C15 (boundary clearance): every placed circle, with its bare radius
\* R = diameter / 2, keeps its surface at least the spacing away from each
\* of the four sides of the rectangle.
BoundaryClearance ==
    \A i \in 1..Len(placedCircles) :
        LET c == placedCircles[i]
        IN  /\ c.x - c.radius >= minSpace
            /\ volume.width - (c.x + c.radius) >= minSpace
            /\ c.y - c.radius >= minSpace
            /\ volume.height - (c.y + c.radius) >= minSpace

WellFormedPipes ==
    \A i \in 1..Len(pipeTypes) :
        pipeTypes[i].externalDiameter > pipeTypes[i].internalDiameter

\* The ids createNestedGroups returned as outer pipes, as nested members and
\* as standalone pipes.
OuterIds(n) == { n.nestedGroups[g].outerPipe.id : g \in 1..Len(n.nestedGroups) }

NestedIds(n) ==
    UNION { { n.nestedGroups[g].nestedPipes[k].id :
                  k \in 1..Len(n.nestedGroups[g].nestedPipes) } :
            g \in 1..Len(n.nestedGroups) }

StandaloneIds(n) == { n.standalonePipes[k].id : k \in 1..Len(n.standalonePipes) }

\* In how many places of the result the pipe id occurs.
Occurrences(n, id) ==
    Cardinality({ g \in 1..Len(n.nestedGroups) : n.nestedGroups[g].outerPipe.id = id })
    + Cardinality({ gk \in (1..Len(n.nestedGroups)) \X (1..Len(pipeTypes)) :
                        /\ gk[2] <= Len(n.nestedGroups[gk[1]].nestedPipes)
                        /\ n.nestedGroups[gk[1]].nestedPipes[gk[2]].id = id })
    + Cardinality({ k \in 1..Len(n.standalonePipes) : n.standalonePipes[k].id = id })

\* C17 (resolver partition): for pipes with distinct ids and
\* externalDiameter > internalDiameter, createNestedGroups puts every pipe in
\* exactly one place (outer pipe of one group, nested member of one group or
\* standalone pipe), returns no other pipe, never uses a nested pipe as an
\* outer pipe, and every group has at least one nested member.
ResolverPartition ==
    (nesting # <<>> /\ WellFormedPipes) =>
        LET n   == nesting[1]
            ids == { pipeTypes[i].id : i \in 1..Len(pipeTypes) }
        IN  /\ \A id \in ids : Occurrences(n, id) = 1
            /\ OuterIds(n) \cup NestedIds(n) \cup StandaloneIds(n) = ids
            /\ OuterIds(n) \cap NestedIds(n) = {}
            /\ \A g \in 1..Len(n.nestedGroups) :
                   Len(n.nestedGroups[g].nestedPipes) >= 1
            /\ \A g \in 1..Len(n.nestedGroups) :
                 \A k \in 1..Len(n.nestedGroups[g].nestedPipes) :
                   n.nestedGroups[g].nestedPipes[k] \in
                       { pipeTypes[i] : i \in 1..Len(pipeTypes) }

\* Three well-formed pipes went through createNestedGroups: one became an
\* outer pipe, one its nested member and one stayed standalone.
ResolverPartitionWitness ==
    /\ pc = "resolver"
    /\ nesting # <<>>
    /\ WellFormedPipes
    /\ Len(pipeTypes) = 3
    /\ Len(nesting[1].nestedGroups) = 1
    /\ Len(nesting[1].nestedGroups[1].nestedPipes) = 1
    /\ Len(nesting[1].standalonePipes) = 1

\* C18 (group type): in the output of findTelescopingPossibilities an outer
\* pipe with at least one nested member has telescopingType "partial" if one
\* of its members is longer than the outer pipe and "full" otherwise, in
\* whatever order the members were accepted.
GroupType ==
    (possibilities # <<>> /\ WellFormedPipes) =>
        \A n \in 1..Len(possibilities[1].pipes) :
            LET p == possibilities[1].pipes[n]
            IN  p.telescopedWith # <<>> =>
                    p.telescopingType =
                        IF \E k \in 1..Len(p.telescopedWith) :
                               Possibility(p.telescopedWith[k]).length > p.length
                        THEN "partial"
                        ELSE "full"

\* How many nodes of the tree under node carry the pipe id.
RECURSIVE NodesOf(_, _)
NodesOf(node, id) ==
    (IF node.id = id THEN 1 ELSE 0)
    + SumField([k \in 1..Len(node.children) |->
                   [count |-> NodesOf(node.children[k], id)]], "count")

\* How many nodes of the relationships forest carry the pipe id.
NodesInForest(forest, id) ==
    SumField([k \in 1..Len(forest) |-> [count |-> NodesOf(forest[k], id)]], "count")

\* C19 (single consumption): in the output of findTelescopingPossibilities
\* every pipe id is in the telescopedWith list of at most one outer pipe, and
\* every pipe occurs exactly once in the relationships forest.
SingleConsumption ==
    (possibilities # <<>> /\ WellFormedPipes) =>
        LET ps == possibilities[1].pipes
        IN  \A i \in 1..Len(pipeTypes) :
                LET id == pipeTypes[i].id
                IN  /\ Cardinality({ n \in 1..Len(ps) :
                                       \E k \in 1..Len(ps[n].telescopedWith) :
                                           ps[n].telescopedWith[k] = id }) <= 1
                    /\ NodesInForest(possibilities[1].relationships, id) = 1

\* The candidates of findBestPosition that pass its filter, for a circle of
\* the given radius among the placed circles.
ValidFor(radius) ==
    validCandidates(
        FloorCandidates(radius, radius, placedCircles, volume.width, volume.height)
        \o AroundCandidates(1, radius, placedCircles, volume.width, volume.height)
        \o PairCandidates(1, 2, radius, placedCircles, volume.width, volume.height),
        radius, placedCircles, volume.width, volume.height)

\* C20 (bottom-left selection): with at least one circle placed, the position
\* findBestPosition returns for the template the loop is at has the smallest
\* y of all valid candidates and, among those of that y, the smallest x.
BottomLeftSelection ==
    (pc = "for" /\ next <= Len(pipeTemplates) /\ Len(placedCircles) > 0) =>
        LET radius == EffectiveRadius(pipeTemplates[next], minSpace)
            valid  == ValidFor(radius)
            found  == PositionFor(pipeTemplates[next])
        IN  /\ found = <<>> <=> valid = <<>>
            /\ found # <<>> =>
                   \A n \in 1..Len(valid) :
                       /\ found[1].y <= valid[n].y
                       /\ valid[n].y = found[1].y => found[1].x <= valid[n].x

\* The heights of the candidates are equal or at least the tie tolerance of
\* the comparator (0.01) apart.
Separated(valid) ==
    \A m, n \in 1..Len(valid) :
        valid[m].y # valid[n].y => Abs(valid[m].y - valid[n].y) >= TieTolerance

\* C20, with the tolerance of the comparator: with at least one circle
\* placed, findBestPosition returns null exactly when no candidate is valid
\* and otherwise one of the valid candidates; when the heights of the valid
\* candidates are equal or at least 0.01 apart, the returned candidate has
\* the smallest y and, among those of that y, the smallest x.
BottomLeftWithinTolerance ==
    (pc = "for" /\ next <= Len(pipeTemplates) /\ Len(placedCircles) > 0) =>
        LET radius == EffectiveRadius(pipeTemplates[next], minSpace)
            valid  == ValidFor(radius)
            found  == PositionFor(pipeTemplates[next])
        IN  /\ found = <<>> <=> valid = <<>>
            /\ found # <<>> =>
                   \E n \in 1..Len(valid) : valid[n] = found[1]
            /\ (found # <<>> /\ Separated(valid)) =>
                   \A n \in 1..Len(valid) :
                       /\ found[1].y <= valid[n].y
                       /\ valid[n].y = found[1].y => found[1].x <= valid[n].x

\* Two or more circles are placed; the valid candidates for the next circle
\* are at two or more heights, none of them nearly equal, and the lowest
\* height is shared by candidates of which a later generated one is the
\* leftmost and is returned.
BottomLeftWithinToleranceWitness ==
    /\ pc = "for"
    /\ next <= Len(pipeTemplates)
    /\ Len(placedCircles) >= 2
    /\ LET valid == ValidFor(EffectiveRadius(pipeTemplates[next], minSpace))
           found == PositionFor(pipeTemplates[next])
       IN  /\ Separated(valid)
           /\ found # <<>>
           /\ \E m, n \in 1..Len(valid) : valid[m].y > valid[n].y
           /\ \E m, n \in 1..Len(valid) :
                  /\ m < n
                  /\ valid[m].y = found[1].y
                  /\ valid[n] = found[1]
                  /\ valid[m].x > valid[n].x

\* The templates are in descending order of diameter, and the for loop is at
\* a template or just past the last.
RoundOrder ==
    /\ \A k \in 1..Len(pipeTemplates) - 1 :
           pipeTemplates[k].diameter >= pipeTemplates[k + 1].diameter
    /\ pc = "for" => next \in 1..Len(pipeTemplates) + 1

\* A step of a round: the for loop goes from one template to the next, places
\* at most one circle, which is of the template it was at, and placedAny
\* records whether the round has placed a circle.
RoundStep ==
    (pc = "for" /\ pc' = "for") =>
        /\ next' = next + 1
        /\ \/ placedCircles' = placedCircles /\ placedAny' = placedAny
           \/ /\ Len(placedCircles') = Len(placedCircles) + 1
              /\ SubSeq(placedCircles', 1, Len(placedCircles)) = placedCircles
              /\ placedCircles'[Len(placedCircles')].item = next
              /\ placedAny'

\* The while test: a round starts, at the first template and with placedAny
\* false, exactly when the round before placed a circle (or there was none)
\* and fewer than maxIterations rounds have run; otherwise the loop ends.
RoundTest ==
    /\ (pc = "loop" /\ pc' = "for") =>
           /\ placedAny /\ iterations < maxIterations
           /\ next' = 1 /\ ~placedAny' /\ iterations' = iterations + 1
           /\ placedCircles' = placedCircles
    /\ (pc = "loop" /\ pc' = "done") =>
           ~(placedAny /\ iterations < maxIterations)
    /\ (pc = "for" /\ pc' = "loop") =>
           next > Len(pipeTemplates) /\ placedAny' = placedAny

\* The engine has stopped before the round cap: no template can be added to
\* the final placed set, for want of a position or of weight capacity.
NothingMoreFits ==
    (pc = "done" /\ Arranging /\ iterations < maxIterations) =>
        \A k \in 1..Len(pipeTemplates) :
            \/ PositionFor(pipeTemplates[k]) = <<>>
            \/ ~WithinCapacity(volume,
                   arrangement.totalWeight + pipeTemplates[k].weight)

\* C21 (round protocol): in each round every template gets one placement
\* attempt, in descending order of diameter, and at most one circle of it is
\* placed; a new round starts exactly when the round before placed a circle
\* and fewer than 10,000 rounds have run; when the engine stops before the
\* cap, every template either has no position against the final placed set
\* or would exceed the weight capacity.
RoundProtocol ==
    /\ [](RoundOrder /\ NothingMoreFits)
    /\ [][RoundStep /\ RoundTest]_vars

\* The engine stopped after two or more rounds with two templates: one has
\* no position left, the other has a position and is refused for its weight.
RoundProtocolWitness ==
    /\ pc = "done"
    /\ Arranging
    /\ iterations >= 2
    /\ Len(pipeTemplates) = 2
    /\ \E k \in 1..2 : PositionFor(pipeTemplates[k]) = <<>>
    /\ \E k \in 1..2 :
           /\ PositionFor(pipeTemplates[k]) # <<>>
           /\ ~WithinCapacity(volume,
                  arrangement.totalWeight + pipeTemplates[k].weight)

\* The table's loop runs to a bound its counter reaches.
BreakdownLoopBounded == pc = "breakdown" => totalContainers < Infinity

\* C22 (breakdown length and termination): for every volumesNeeded of
\* calculateVolumesNeededByPacking, the infeasible one (total Infinity) and
\* the one of a container of no volume (total 0) included, the table's
\* breakdown terminates and holds exactly volumesNeeded.total containers,
\* numbered 1..total.
BreakdownLength ==
    /\ BreakdownLoopBounded
    /\ pc = "table" =>
          /\ Len(containers) = results[1].volumesNeeded.total
          /\ \A n \in 1..Len(containers) : containers[n].containerNumber = n

\* The entries of the containers built so far that are flagged nested, each
\* with the container it is in.
NestedEntries ==
    { <<n, k>> \in (1..Len(containers)) \X (1..2 * MaxTablePipes) :
          /\ k <= Len(containers[n].pipes)
          /\ containers[n].pipes[k].nested }

\* In each container no nested entry counts more pipes than the container
\* has dominant pipes (the container's first entry).
NestedWithinDominant ==
    \A e \in NestedEntries :
        containers[e[1]].pipes[e[2]].count <= containers[e[1]].pipes[1].count

\* C23 (nested allocation respects the allowance): a secondary pipe type
\* gets entries flagged nested only if its external diameter is at most the
\* dominant pipe's internal diameter minus the allowance, and in each
\* container the nested count is at most the number of dominant pipes.
NestedRespectsAllowance ==
    /\ \A e \in NestedEntries :
           containers[e[1]].pipes[e[2]].diameterMm
               <= sortedPipes(results[1].pipeResults)[1].internalDiameterMm - allowance
    /\ NestedWithinDominant

\* The pipes of diameter d in the entries of one container, from entry k on.
RECURSIVE CountInEntries(_, _, _)
CountInEntries(pipes, k, d) ==
    IF k > Len(pipes) THEN 0
    ELSE (IF pipes[k].diameterMm = d THEN pipes[k].count ELSE 0)
             + CountInEntries(pipes, k + 1, d)

\* The pipes of diameter d in the containers from container n on.
RECURSIVE Allocated(_, _)
Allocated(n, d) ==
    IF n > Len(containers) THEN 0
    ELSE CountInEntries(containers[n].pipes, 1, d) + Allocated(n + 1, d)

\* The table is complete for a result with a finite total.
FeasibleTable == pc = "table" /\ results[1].volumesNeeded.total < Infinity

\* C24 (demand fully allocated): for every feasible result the breakdown of
\* containers 1..total places the whole order: for each pipe type with
\* numberOfPipes > 0 the nested and standalone counts over all containers
\* add up to numberOfPipes, and the containers' totals to results.totalPipes.
DemandAllocated ==
    FeasibleTable =>
        /\ \A k \in 1..Len(results[1].pipeResults) :
               LET p == results[1].pipeResults[k]
               IN  p.numberOfPipes > 0 =>
                       Allocated(1, p.externalDiameterMm) = p.numberOfPipes
        /\ SumField(containers, "totalPipes") = results[1].totalPipes

\* C25 (per-container weight): when weightCapacity > 0 and the result is
\* feasible, every container of the breakdown has totalWeight at most
\* weightCapacity (the weights of the table are thousandths of a kg).
ContainerWeightWithinCapacity ==
    (FeasibleTable /\ OrZero(volume, "weightCapacity") > 0) =>
        \A n \in 1..Len(containers) :
            containers[n].totalWeight <= volume.weightCapacity * 1000

\* The breakdown is being built or is built.
InBreakdown == pc \in {"breakdown", "table"} /\ remainingPipes # <<>>

\* The demand of the pipe type id.
Demand(id) ==
    LET sorted == sortedPipes(results[1].pipeResults)
    IN  sorted[CHOOSE k \in 1..Len(sorted) : sorted[k].id = id].numberOfPipes

\* What the types of diameter d have had taken off their remaining demand.
RECURSIVE TakenOff(_, _, _)
TakenOff(sorted, k, d) ==
    IF k > Len(sorted) THEN 0
    ELSE (IF sorted[k].externalDiameterMm = d
          THEN sorted[k].numberOfPipes - remainingPipes[sorted[k].id] ELSE 0)
             + TakenOff(sorted, k + 1, d)

\* No remaining demand is negative or above the demand, and the entries of
\* the containers hold what was taken off the remaining demand, diameter by
\* diameter (the entries carry a diameter, not an id).
AllocationWithinDemand ==
    InBreakdown =>
        LET sorted == sortedPipes(results[1].pipeResults)
        IN  /\ \A id \in DOMAIN remainingPipes :
                   /\ remainingPipes[id] >= 0
                   /\ Demand(id) - remainingPipes[id] <= Demand(id)
            /\ \A k \in 1..Len(sorted) :
                   Allocated(1, sorted[k].externalDiameterMm)
                       = TakenOff(sorted, 1, sorted[k].externalDiameterMm)

\* One container takes from no type more than is left of it, and from the
\* dominant type at most its pipesPerContainer.
ContainerStep ==
    (pc = "breakdown" /\ index' = index + 1) =>
        LET largestPipe == sortedPipes(results[1].pipeResults)[1]
        IN  /\ \A id \in DOMAIN remainingPipes :
                   /\ remainingPipes'[id] <= remainingPipes[id]
                   /\ remainingPipes'[id] >= 0
            /\ remainingPipes[largestPipe.id] - remainingPipes'[largestPipe.id]
                   <= largestPipe.pipesPerContainer

\* C26 (no over-allocation): while the breakdown is built container by
\* container (pipe ids distinct), the remaining demand of every pipe type is
\* never negative, so the total allocated to a type is at most its
\* numberOfPipes, and the dominant pipe's count in a container is at most
\* its pipesPerContainer.
NoOverAllocation == []AllocationWithinDemand /\ [][ContainerStep]_vars

\* A finished breakdown of two types over two or more containers with
\* nested and standalone entries, one type placed in full and the dominant
\* type filling a container to its pipesPerContainer.
NoOverAllocationWitness ==
    /\ pc = "table"
    /\ Len(containers) >= 2
    /\ NestedEntries # {}
    /\ \E n \in 1..Len(containers) : \E k \in 1..Len(containers[n].pipes) :
           "standalone" \in DOMAIN containers[n].pipes[k]
    /\ \E id \in DOMAIN remainingPipes : remainingPipes[id] = 0
    /\ containers[1].pipes[1].count
           = sortedPipes(results[1].pipeResults)[1].pipesPerContainer

\* The sum of the counts of pipeCounts over the ids S.
RECURSIVE SumCounts(_, _)
SumCounts(counts, S) ==
    IF S = {} THEN 0
    ELSE LET id == CHOOSE x \in S : TRUE
         IN  counts[id].count + SumCounts(counts, S \ {id})

\* The member pipes of the templates of the circles placed, from circle k on.
RECURSIVE MembersPlaced(_)
MembersPlaced(k) ==
    IF k > Len(placedCircles) THEN 0
    ELSE Len(pipeTemplates[placedCircles[k].item].pipes) + MembersPlaced(k + 1)

\* The placed circles whose template holds the pipe id.
CirclesWith(id) ==
    { k \in 1..Len(placedCircles) :
          \E m \in 1..Len(pipeTemplates[placedCircles[k].item].pipes) :
              pipeTemplates[placedCircles[k].item].pipes[m].id = id }

\* C27 (engine bookkeeping): after every placement (pipe ids distinct)
\* arrangement.totalPipes is the sum of the counts of pipeCounts and the
\* number of member pipes of the templates of the placed circles; the count
\* of a pipe id is the number of placed circles whose template holds it;
\* the final layers[0].items has exactly one item per placed circle.
EngineBookkeeping ==
    (Arranging /\ pc \in {"loop", "for", "done"}) =>
        /\ arrangement.totalPipes
               = SumCounts(arrangement.pipeCounts, DOMAIN arrangement.pipeCounts)
        /\ arrangement.totalPipes = MembersPlaced(1)
        /\ \A k \in 1..Len(pipeTypes) :
               LET id == pipeTypes[k].id
               IN  Cardinality(CirclesWith(id))
                       = IF id \in DOMAIN arrangement.pipeCounts
                         THEN arrangement.pipeCounts[id].count ELSE 0
        /\ \A id \in DOMAIN arrangement.pipeCounts :
               \E k \in 1..Len(pipeTypes) : pipeTypes[k].id = id
        /\ pc = "done" =>
               /\ Len(arrangement.layers) = 1
               /\ Len(arrangement.layers[1].items) = Len(placedCircles)
               /\ \A k \in 1..Len(placedCircles) :
                      /\ arrangement.layers[1].items[k].x = placedCircles[k].x
                      /\ arrangement.layers[1].items[k].y = placedCircles[k].y

\* A finished run that placed several circles of a nested group (two member
\* pipes each).
EngineBookkeepingWitness ==
    /\ Arranging /\ pc = "done"
    /\ Len(placedCircles) >= 2
    /\ \A k \in 1..Len(placedCircles) :
           Len(pipeTemplates[placedCircles[k].item].pipes) = 2
    /\ arrangement.totalPipes = 2 * Len(placedCircles)

\* The state holds no results and no arrangement.
Cleared(t) == t.results = <<>> /\ t.arrangement = <<>>

\* The inputs and the outputs of the state t are those of the state s.
SameInputsAndOutputs(s, t) ==
    /\ t.volume = s.volume /\ t.pipes = s.pipes /\ t.boxes = s.boxes
    /\ t.config = s.config
    /\ t.results = s.results /\ t.arrangement = s.arrangement

\* The ids an action can name: those handed out and the next one.
ActionIds == 1..MaxIds + 1

\* C28 (reducer invalidation and frame): UPDATE_VOLUME, ADD_PIPE,
\* UPDATE_PIPE, REMOVE_PIPE, ADD_BOX, UPDATE_BOX, REMOVE_BOX, UPDATE_CONFIG
\* and RESET leave results = null and arrangement = null; SET_ERRORS and
\* SET_CALCULATING leave volume, pipes, boxes, config, results and
\* arrangement unchanged; CALCULATE changes only results and arrangement.
\* Stated for every action applied to the state the store is in.
ReducerFrame ==
    /\ \A payload \in VolumeUpdates :
           Cleared(calculatorReducer(state, "UPDATE_VOLUME", payload))
    /\ \A id \in ActionIds :
           /\ Cleared(calculatorReducer(state, "ADD_PIPE", id))
           /\ Cleared(calculatorReducer(state, "REMOVE_PIPE", [id |-> id]))
           /\ Cleared(calculatorReducer(state, "ADD_BOX", id))
           /\ Cleared(calculatorReducer(state, "REMOVE_BOX", [id |-> id]))
           /\ \A updates \in PipeUpdates :
                  Cleared(calculatorReducer(state, "UPDATE_PIPE",
                                            [id |-> id, updates |-> updates]))
           /\ \A updates \in BoxUpdates :
                  Cleared(calculatorReducer(state, "UPDATE_BOX",
                                            [id |-> id, updates |-> updates]))
    /\ \A payload \in ConfigUpdates :
           Cleared(calculatorReducer(state, "UPDATE_CONFIG", payload))
    /\ Cleared(calculatorReducer(state, "RESET", <<>>))
    /\ \A payload \in { {}, {"pipes"},
                        validateInputs(state.volume, state.pipes, state.boxes,
                                       state.config) } :
           SameInputsAndOutputs(state, calculatorReducer(state, "SET_ERRORS", payload))
    /\ \A payload \in BOOLEAN :
           SameInputsAndOutputs(state,
                                calculatorReducer(state, "SET_CALCULATING", payload))
    /\ \A payload \in { [results |-> <<>>, arrangement |-> <<>>],
                        [results     |-> <<calculateResults(state.pipes, state.volume)>>,
                         arrangement |-> <<NewArrangement>>] } :
           LET t == calculatorReducer(state, "CALCULATE", payload)
           IN  /\ DOMAIN t = DOMAIN state
               /\ \A f \in DOMAIN state \ {"results", "arrangement"} : t[f] = state[f]
               /\ t.results = payload.results
               /\ t.arrangement = payload.arrangement

\* The store holds results and an arrangement, a pipe and a box, and a call
\* is waiting with isCalculating set.
ReducerFrameWitness ==
    /\ pc = "idle"
    /\ state.results # <<>> /\ state.arrangement # <<>>
    /\ Len(state.pipes) = 1 /\ Len(state.boxes) = 1
    /\ state.isCalculating /\ calls # <<>>

\* C29 (no stale results): if results is non-null it was computed from the
\* volume, pipes, boxes and config currently in the state, also when
\* input-changing actions or RESET are dispatched while a calculate() call
\* waits between its validation and its CALCULATE dispatch, and when two
\* calls overlap.
NoStaleResults ==
    state.results # <<>> =>
        /\ computedFrom = <<Closure(state)>>
        /\ state.results[1] = calculateResults(state.pipes, state.volume)

\* The call with the tag t has set isCalculating and has not finished.
InFlight(t) == \E k \in 1..Len(calls) : calls[k].tag = t

\* The step at which a call starts waiting sets isCalculating, and the step
\* at which a call ends (after CALCULATE or after a throw) clears it.
FlagSetAndCleared ==
    /\ Len(calls') > Len(calls) => state'.isCalculating
    /\ Len(calls') < Len(calls) => ~state'.isCalculating

\* A call whose validation fails sets no flag, dispatches no CALCULATE and
\* starts no wait.
InvalidCallInert ==
    CalculateInvalid =>
        /\ state'.isCalculating = state.isCalculating
        /\ state'.results = state.results
        /\ state'.arrangement = state.arrangement
        /\ calls' = calls

\* C30 (calculating flag liveness): every calculate() call that sets
\* isCalculating to true eventually sets it to false, whether
\* optimizeArrangement and calculateResults succeed or throw; a call whose
\* validation fails never sets isCalculating to true, never dispatches
\* CALCULATE and leaves results and arrangement unchanged.
CalculatingEnds ==
    /\ \A t \in 1..MaxCalls : InFlight(t) ~> ~InFlight(t)
    /\ [][FlagSetAndCleared /\ InvalidCallInert]_vars

\* Two calls overlap: one is running the engine, the other waits, and
\* isCalculating is set.
CalculatingEndsWitness ==
    /\ Len(calls) = 2
    /\ calls[1].at = "running" /\ pc = "for"
    /\ state.isCalculating
====
